---- MODULE Spec2Model ----
(***************************************************************************)
(* Model of the configuration service's publish/subscribe change bus       *)
(* (config/service_pubsub.go) together with the Service write/read path    *)
(* that feeds it.  Every goroutine is a process with a program counter;    *)
(* unbuffered Go channels are modelled as rendezvous steps between the     *)
(* sender's and the receiver's program counters.                           *)
(***************************************************************************)
EXTENDS Integers, Sequences, FiniteSets, TLC

\* ------------------------------------------------------------------ bounds
MaxEvents == 2      \* number of sendMsg / Service.Set calls in a run
MaxSubs   == 2      \* number of successful Subscribe calls in a run
MaxCloses == 2      \* number of Close calls in a run
MaxObservers == 3   \* number of observers registered for one event and route

\* goroutines that call into the Service: every one of them may call Close,
\* the writers also call Set / sendMsg and read
Clients == {"c1", "c2"}
Writers == {"c1"}

\* ------------------------------------------------------------- data model
\* A route is a sequence of segments, a path is a route bound to a scope.
RouteSystem  == <<"system", "smtp", "host">>
RoutePayment == <<"payment", "pp", "port">>
EmptyRoute   == << >>

WebsiteID == 2
StoreID   == 5

MakePath(scope, id, route) == [scope |-> scope, id |-> id, route |-> route]

PathDefault(route) == MakePath("default", 0, route)
PathWebsite(route) == MakePath("websites", WebsiteID, route)
PathStore(route)   == MakePath("stores", StoreID, route)

\* the characters of every segment the model uses
SegChars ==
  [ s \in {"system", "smtp", "host", "payment", "pp", "port",
           "default", "websites", "stores", "0", "2", "5",
           "Aa", "bb", "cc"} |->
      CASE s = "system"  -> <<"s","y","s","t","e","m">>
        [] s = "default"  -> <<"d","e","f","a","u","l","t">>
        [] s = "websites" -> <<"w","e","b","s","i","t","e","s">>
        [] s = "stores"   -> <<"s","t","o","r","e","s">>
        [] s = "0"       -> <<"0">>
        [] s = "2"       -> <<"2">>
        [] s = "5"       -> <<"5">>
        [] s = "smtp"    -> <<"s","m","t","p">>
        [] s = "host"    -> <<"h","o","s","t">>
        [] s = "payment" -> <<"p","a","y","m","e","n","t">>
        [] s = "pp"      -> <<"p","p">>
        [] s = "port"    -> <<"p","o","r","t">>
        [] s = "Aa"      -> <<"A","a">>
        [] s = "bb"      -> <<"b","b">>
        [] s = "cc"      -> <<"c","c">> ]

Lower == <<"a","b","c","d","e","f","g","h","i","j","k","l","m",
           "n","o","p","q","r","s","t","u","v","w","x","y","z">>

Upper == <<"A","B","C","D","E","F","G","H","I","J","K","L","M",
           "N","O","P","Q","R","S","T","U","V","W","X","Y","Z">>

Digits == <<"0","1","2","3","4","5","6","7","8","9">>

\* ASCII code of a character
Ord(c) ==
  IF c = "/" THEN 47
  ELSE IF \E i \in 1..10 : Digits[i] = c
  THEN 47 + CHOOSE i \in 1..10 : Digits[i] = c
  ELSE IF \E i \in 1..26 : Upper[i] = c
  THEN 64 + CHOOSE i \in 1..26 : Upper[i] = c
  ELSE 96 + CHOOSE i \in 1..26 : Lower[i] = c

\* Path.IsEmpty
IsEmpty(p) == p.route = EmptyRoute

RECURSIVE JoinChars(_)
\* the characters of "seg1/seg2/..."
JoinChars(segs) ==
  IF segs = << >> THEN << >>
  ELSE IF Len(segs) = 1 THEN SegChars[segs[1]]
  ELSE SegChars[segs[1]] \o <<"/">> \o JoinChars(Tail(segs))

\* Levels: the number of parts of a route; a fully qualified path has two
\* more
Levels == 3

\* the characters IsValid accepts in a route
AllowedChars ==
  { Lower[i] : i \in 1..26 } \cup { Upper[i] : i \in 1..26 }
    \cup { Digits[i] : i \in 1..10 } \cup {"_", "/"}

\* bytes.Count(b, Separator)
CountSep(chars) == Cardinality({ i \in 1..Len(chars) : chars[i] = "/" })

\* Path.IsValid, of a path whose Route is a sequence of characters
IsValid(p) ==
  IF p.Route = << >> THEN "ErrRouteEmpty"
  ELSE IF \E i \in 1..Len(p.Route) : p.Route[i] \notin AllowedChars
  THEN "NotAllowed"
  ELSE IF CountSep(p.Route) # Levels - 1 \/ Len(p.Route) < 8
  THEN "ErrIncorrectPath"
  ELSE "nil"

\* the error Path.Level(n) returns: the one of IsValid, for every n
LevelErr(p, n) == IsValid([Route |-> JoinChars(p.route)])

\* the route Path.Level(n) returns: nil for a path that is not valid,
\* otherwise the first n segments of the route, the whole route for n < 0
\* and for an n that is not below the length of the route
Level(p, n) ==
  IF LevelErr(p, n) # "nil" THEN << >>
  ELSE IF n < 0 \/ n >= Len(JoinChars(p.route)) THEN p.route
  ELSE IF n >= Len(p.route) THEN p.route
  ELSE SubSeq(p.route, 1, n)

\* ------------------------------------------------------- FNV-1a, 32 bit
\* A uint32 is kept as <<high 16 bits, low 16 bits>>.
FnvOffset == <<33052, 40389>>     \* 2166136261 = 0x811C9DC5
FnvPrimeLow == 403                \* 16777619 = 2^24 + 0x193

RECURSIVE Xor(_, _, _)
\* bitwise exclusive or of the lowest n bits of a and b
Xor(a, b, n) ==
  IF n = 0 THEN 0
  ELSE ((a + b) % 2) + 2 * Xor(a \div 2, b \div 2, n - 1)

\* one round: h = (h XOR byte) * 16777619 mod 2^32
FnvStep(h, byte) ==
  LET lo1  == (h[2] - (h[2] % 256)) + Xor(h[2] % 256, byte, 8)
      prod == lo1 * FnvPrimeLow
      lo2  == prod % 65536
      hi2  == (h[1] * FnvPrimeLow + (prod \div 65536) + (lo1 % 256) * 256) % 65536
  IN  <<hi2, lo2>>

RECURSIVE Fnv32a(_, _)
Fnv32a(h, chars) ==
  IF chars = << >> THEN h
  ELSE Fnv32a(FnvStep(h, Ord(Head(chars))), Tail(chars))

\* every route prefix that is hashed in the model, with its topic hash
Prefixes ==
  { SubSeq(r, 1, n) : r \in {RouteSystem, RoutePayment}, n \in 1..3 }

HashTable == [ segs \in Prefixes |-> Fnv32a(FnvOffset, JoinChars(segs)) ]

\* Path.Hash32: the topic hash of a subscription path
Hash32(p) == HashTable[p.route]

\* Path.Hash(level): the topic hash of the first `level` segments
Hash(p, level) == HashTable[Level(p, level)]

\* the decimal form of a scope id
IDStr(id) == CASE id = 0 -> "0" [] id = WebsiteID -> "2" [] id = StoreID -> "5"

\* the two topic hashes of a path prefix: H1 over the route prefix alone,
\* H2 over the scope-qualified form "<scope>/<id>/<route prefix>"
H1(p, level) == Fnv32a(FnvOffset, JoinChars(Level(p, level)))
H2(p, level) ==
  Fnv32a(FnvOffset, JoinChars(<<p.scope, IDStr(p.id)>> \o Level(p, level)))

\* ------------------------------------------------------------------ state
VARIABLES
  subMap,         \* pubSub.subMap: topic hash -> set of subscription ids
  subAutoInc,     \* pubSub.subAutoInc
  rlocked,        \* pubSub.mu is read-locked by the delivery goroutine
  closed,         \* pubSub.closed
  pubPathClosed,  \* close(s.pubPath) has run
  stopClosed,     \* close(s.stop) has run
  closeErrClosed, \* close(s.closeErr) has run
  ppc,            \* position of the publish goroutine
  cur,            \* the path the publish goroutine is fanning out
  lk,             \* lookup in progress: 1,2 level 1; 3,4 level 2; 5,6 level -1
  todo,           \* ids of the bucket that sendMsgs still has to call
  evict,          \* the evict slice of publish
  pc,             \* position of every client goroutine
  arg,            \* the path a client is sending
  ret,            \* what the client's last call returned
  crashed,        \* an unrecovered panic has terminated the program
  storage,        \* Storage: path -> value
  readRes,        \* result of the last Scoped read; tick flips at every read
  \* history
  enq,            \* paths received from pubPath, in order
  calls,          \* MessageConfig invocations for the last event received,
                  \* in the order they started
  active,         \* invocations that have started and not returned
  failed,         \* id and event of the first invocation of each id that
                  \* ended with an error or a panic; conv tells whether
                  \* sendMsgRecoverable returned an error for it
  panicAt,        \* event of the first recovered panic, 0 when there is none
  topicOf,        \* subscription id -> the path it subscribed to
  subRet,         \* what the last Subscribe call returned
  issued,         \* the ids returned by successful Subscribe calls, in order
  subsAtRecv,     \* the ids subscribed when the last event was received
  nOk,            \* number of Service.Set calls that returned nil
  mark,           \* Len(enq) when the client's Service.Set call started
  nCalls,         \* number of sendMsg/Set and of Close calls made
  getRes,         \* the last Value call of a typed adapter and its result
  \* the SQL storage
  table,          \* rows of core_config_data: (scope, scope_id, path) -> value
  stmt,           \* the three ResurrectStmt of DBStorage
  dbpc,           \* position of every client inside a DBStorage call
  dbop,           \* the DBStorage call a client is in
  dbRet,          \* what the last DBStorage.Value call has returned
  lastSet,        \* history: key -> value of the last Set that returned nil
  \* calls of functions without state
  pathRes,        \* the last call of Path.FQ / SplitFQ and what it returned
  permRes,        \* the last call of a method of scope.Perm
  observers,      \* ObserverRegistry: (event, route) -> observers in order
  evalRes,        \* the last call of ObserverRegistry.Evaluate
  loadRes,        \* the last call of RegisterObservers
  \* the locks and flags, statement by statement
  writer,         \* the call that holds s.mu.Lock() and has not written yet
  unsubRet,       \* what the last Unsubscribe call of a client returned
  cb              \* the call into pubSub that the running receiver has made

pubVars  == <<ppc, cur, lk, todo, evict>>
chanVars == <<closed, pubPathClosed, stopClosed, closeErrClosed>>
subVars  == <<subMap, subAutoInc, topicOf, subRet, issued>>
histVars == <<enq, calls, active, failed, panicAt, subsAtRecv>>
dbVars   == <<table, stmt, dbpc, dbop, dbRet, lastSet>>
svcVars  == <<storage, readRes, nOk, mark, getRes, dbVars>>
fnVars   == <<pathRes, permRes, observers, evalRes, loadRes, writer,
             unsubRet, cb>>
vars == <<subMap, subAutoInc, rlocked, closed, pubPathClosed, stopClosed,
          closeErrClosed, ppc, cur, lk, todo, evict, pc, arg, ret, crashed,
          storage, readRes, enq, calls, active, failed, panicAt, subsAtRecv,
          topicOf, subRet, issued, nOk, mark, nCalls, getRes, table, stmt,
          dbpc, dbop, dbRet, lastSet, pathRes, permRes, observers, evalRes,
          loadRes, writer, unsubRet, cb>>

NoPath == MakePath("none", 0, EmptyRoute)
\* no call of a function without state yet
NoCall == [op |-> "none"]
NoSub  == [id |-> 0, err |-> "none"]
NoRead == [parent |-> 0, current |-> 0, err |-> "none", val |-> 0,
           from |-> "none", tick |-> 0]
\* no Value call of an adapter yet
NoGet == [field |-> FALSE, scopes |-> 0, def |-> "nil", parent |-> 0,
          current |-> 0, fail |-> FALSE, err |-> "none", wrapped |-> FALSE,
          val |-> 0, invokes |-> << >>]

\* DBStorage.All, DBStorage.Read, DBStorage.Write
Stmts == {"All", "Read", "Write"}

\* csdb.NewResurrectStmt: not prepared yet ("new"; later "open", or
\* "closed" by the idle checker or by Stop), not in use, and its idle
\* checker not started ("off"; later "on", then "stopped", or "failed" when
\* the Close of Stop returned an error)
NewResurrectStmt == [open |-> "new", inUse |-> 0, checker |-> "off"]

NoRet == [op |-> "none", key |-> NoPath, err |-> "none", val |-> << >>,
          row |-> "none"]
NoOp  == [op |-> "none", key |-> NoPath, val |-> 0, res |-> NoRet]

\* --------------------------------------------------------------- inputs
\* paths a client subscribes to: route prefixes, and the empty path
Topics ==
  { PathDefault(r) : r \in { <<"system">>, <<"system", "smtp">>, RouteSystem,
                             EmptyRoute } }

\* the topics of the runs in which receivers panic
PanicTopics == { PathDefault(<<"system">>), PathDefault(RouteSystem) }

\* paths written through sendMsg
PubPaths == { PathDefault(RouteSystem), PathStore(RoutePayment) }

\* what a MessageConfig call does: return nil, return an error, panic with
\* an error value (this includes runtime errors), panic with another value,
\* panic(nil) where recover() returns nil for it
Outcomes == {"nil", "err", "panicErr", "panicVal", "panicNil"}

\* ------------------------------------------------------------------- Init
\* newPubSub, with the publish goroutine started by the Service
Init ==
  /\ subMap = << >>
  /\ subAutoInc = 0
  /\ rlocked = FALSE
  /\ closed = FALSE
  /\ pubPathClosed = FALSE
  /\ stopClosed = FALSE
  /\ closeErrClosed = FALSE
  /\ ppc = "select"
  /\ cur = NoPath
  /\ lk = 0
  /\ todo = {}
  /\ evict = << >>
  /\ pc = [c \in Clients |-> "idle"]
  /\ arg = [c \in Clients |-> NoPath]
  /\ ret = [c \in Clients |-> "none"]
  /\ crashed = FALSE
  /\ storage = << >>
  /\ readRes = NoRead
  /\ enq = << >>
  /\ calls = << >>
  /\ active = {}
  /\ failed = {}
  /\ panicAt = 0
  /\ subsAtRecv = {}
  /\ topicOf = << >>
  /\ subRet = NoSub
  /\ issued = << >>
  /\ nOk = 0
  /\ mark = [c \in Clients |-> 0]
  /\ nCalls = [send |-> 0, close |-> 0]
  /\ getRes = NoGet
  /\ table = << >>
  /\ stmt = [s \in Stmts |-> NewResurrectStmt]
  /\ dbpc = [c \in Clients |-> "idle"]
  /\ dbop = [c \in Clients |-> NoOp]
  /\ dbRet = NoRet
  /\ lastSet = << >>
  /\ pathRes = NoCall
  /\ permRes = NoCall
  /\ observers = << >>
  /\ evalRes = NoCall
  /\ loadRes = NoCall
  /\ writer = NoCall
  /\ unsubRet = NoSub
  /\ cb = NoCall

\* ------------------------------------------------- subscription map
Subscribed == UNION { subMap[h] : h \in DOMAIN subMap }

\* the bucket stored under a topic hash, empty when there is none
Bucket(h) == IF h \in DOMAIN subMap THEN subMap[h] ELSE {}

\* mutant of MapInsert: the id is stored in every bucket
MapInsertAll(m, h, id) ==
  [x \in DOMAIN m \cup {h} |-> IF x \in DOMAIN m THEN m[x] \cup {id} ELSE {id}]

\* the map after Subscribe has stored id under hash h
MapInsert(m, h, id) ==
  IF h \in DOMAIN m THEN [m EXCEPT ![h] = @ \cup {id}]
  ELSE [x \in DOMAIN m \cup {h} |-> IF x = h THEN {id} ELSE m[x]]

\* mutant of MapRemove: the whole bucket that holds the id is dropped
MapRemoveBucket(m, id) ==
  LET hs == { h \in DOMAIN m : id \in m[h] } IN
  [x \in DOMAIN m \ hs |-> m[x]]

\* the map after Unsubscribe(id): the id is deleted from the bucket that
\* holds it and a bucket that became empty is dropped
MapRemove(m, id) ==
  LET hs == { h \in DOMAIN m : id \in m[h] } IN
  IF hs = {} THEN m
  ELSE LET h == CHOOSE x \in hs : TRUE IN
       IF m[h] \ {id} = {} THEN [x \in DOMAIN m \ {h} |-> m[x]]
       ELSE [m EXCEPT ![h] = @ \ {id}]

\* mutant of NextID: the lowest id that is not in use is handed out
NextIDReuse == CHOOSE i \in 1..(MaxSubs + 1) : i \notin Subscribed

\* s.subAutoInc++; subscriptionID = s.subAutoInc
NextID == subAutoInc + 1

\* mutant of Subscribe: the counter is advanced before the path is tested
SubscribeCountFirst(p) ==
  /\ ~crashed
  /\ subAutoInc < MaxSubs
  /\ IF IsEmpty(p)
     THEN /\ subRet' = [id |-> 0, err |-> "Empty"]
          /\ subAutoInc' = NextID
          /\ UNCHANGED <<subMap, topicOf, issued>>
     ELSE /\ ~rlocked
          /\ subAutoInc' = NextID
          /\ subMap' = MapInsert(subMap, Hash32(p), NextID)
          /\ topicOf' = Append(topicOf, p)
          /\ issued' = Append(issued, NextID)
          /\ subRet' = [id |-> NextID, err |-> "nil"]
  /\ UNCHANGED <<fnVars, rlocked, chanVars, pubVars, pc, arg, ret, crashed, histVars,
                 svcVars, nCalls>>

\* pubSub.Subscribe, called by a goroutine of its own: an empty path is
\* refused before the lock is taken, otherwise the receiver is stored under
\* the topic hash with the next id while the write lock is held
Subscribe(p) ==
  /\ ~crashed
  /\ IF IsEmpty(p)
     THEN /\ subRet' = [id |-> 0, err |-> "Empty"]
          /\ UNCHANGED <<subMap, subAutoInc, topicOf, issued>>
     ELSE /\ ~rlocked
          /\ subAutoInc < MaxSubs
          /\ subAutoInc' = NextID
          /\ subMap' = MapInsert(subMap, Hash32(p), NextID)
          /\ topicOf' = Append(topicOf, p)
          /\ issued' = Append(issued, NextID)
          /\ subRet' = [id |-> NextID, err |-> "nil"]
  /\ UNCHANGED <<fnVars, rlocked, chanVars, pubVars, pc, arg, ret, crashed, histVars,
                 svcVars, nCalls>>

\* pubSub.Unsubscribe, called by a goroutine of its own
Unsubscribe(id) ==
  /\ ~crashed
  /\ ~rlocked
  /\ id \in Subscribed
  /\ subMap' = MapRemove(subMap, id)
  /\ UNCHANGED <<fnVars, subAutoInc, topicOf, subRet, issued, rlocked, chanVars,
                 pubVars, pc, arg, ret, crashed, histVars, svcVars, nCalls>>

\* ------------------------------------------------------------- sendMsg
\* where a client is while it is blocked in s.pubPath <- p, and where it is
\* after sendMsg has returned: in Service.Set, or done with a direct call
InSet(c)    == pc[c] \in {"set_publish", "set_send_wait"}
Sending(c)  == IF InSet(c) THEN "set_send_wait" ELSE "send_wait"
Returned(c) == IF InSet(c) THEN "set_return" ELSE "idle"
Waiting(c)  == pc[c] \in {"send_wait", "set_send_wait"}

\* mutant of sendMsg: the closed flag is tested the wrong way round
sendMsgInverted(c, p) ==
  IF ~closed
  THEN /\ pc' = [pc EXCEPT ![c] = Returned(c)]
       /\ arg' = arg
  ELSE /\ pc' = [pc EXCEPT ![c] = Sending(c)]
       /\ arg' = [arg EXCEPT ![c] = p]

\* pubSub.sendMsg up to the channel send: the event is dropped when the
\* closed flag is set, otherwise the caller goes on to send on pubPath
sendMsg(c, p) ==
  IF closed
  THEN /\ pc' = [pc EXCEPT ![c] = Returned(c)]
       /\ arg' = arg
  ELSE /\ pc' = [pc EXCEPT ![c] = Sending(c)]
       /\ arg' = [arg EXCEPT ![c] = p]

\* a client calls sendMsg(p)
SendMsg(c, p) ==
  /\ ~crashed
  /\ pc[c] = "idle"
  /\ nCalls.send < MaxEvents
  /\ nCalls' = [nCalls EXCEPT !.send = @ + 1]
  /\ sendMsg(c, p)
  /\ UNCHANGED <<fnVars, subVars, rlocked, chanVars, pubVars, ret, crashed, histVars,
                 svcVars>>

\* s.pubPath <- p on a closed channel: the sender panics
SendPanic(c) ==
  /\ ~crashed
  /\ Waiting(c)
  /\ pubPathClosed
  /\ pc' = [pc EXCEPT ![c] = "panic_send"]
  /\ crashed' = TRUE
  /\ UNCHANGED <<fnVars, subVars, rlocked, chanVars, pubVars, arg, ret, histVars,
                 svcVars, nCalls>>
\* ------------------------------------------------ the publish goroutine
\* the level argument of the readMapAndSend call that lookup k belongs to
LevelOf(k) == IF k <= 2 THEN 1 ELSE IF k <= 4 THEN 2 ELSE -1

\* the hash looked up by lookup k of readMapAndSend: the first and the
\* second lookup of a level both use p.Hash(level)
LookupHash(p, k) == Hash(p, LevelOf(k))

\* mutant of AtSelect: the next path is also taken while a callback runs
AtSelectOrCalling == ppc \in {"select", "call"}

\* the publish goroutine is blocked in its select statement
AtSelect == ppc = "select"

\* mutant of PubRecvPath: the sender calls the first receiver itself before
\* its sendMsg returns
PubRecvPathSync(c) ==
  /\ ~crashed
  /\ ppc = "select"
  /\ Waiting(c)
  /\ ~pubPathClosed
  /\ pc' = [pc EXCEPT ![c] = Returned(c)]
  /\ enq' = Append(enq, arg[c])
  /\ cur' = arg[c]
  /\ evict' = << >>
  /\ calls' = IF Subscribed = {} THEN << >>
              ELSE <<[ev |-> Len(enq) + 1, id |-> CHOOSE i \in Subscribed : TRUE,
                      path |-> arg[c], by |-> c]>>
  /\ subsAtRecv' = Subscribed
  /\ ppc' = "len"
  /\ UNCHANGED <<fnVars, subVars, rlocked, chanVars, lk, todo, arg, ret,
                 crashed, active, failed, panicAt, svcVars, nCalls>>

\* case p, ok := <-s.pubPath: the goroutine takes the path of a blocked
\* sender, whose sendMsg returns; the next statement of publish is the
\* test of len(s.subMap)
PubRecvPath(c) ==
  /\ ~crashed
  /\ AtSelect
  /\ Waiting(c)
  /\ ~pubPathClosed
  /\ pc' = [pc EXCEPT ![c] = Returned(c)]
  /\ enq' = Append(enq, arg[c])
  /\ cur' = arg[c]
  /\ evict' = << >>
  /\ calls' = << >>
  /\ subsAtRecv' = Subscribed
  /\ ppc' = "len"
  /\ UNCHANGED <<fnVars, subVars, rlocked, chanVars, lk, todo, arg, ret,
                 crashed, active, failed, panicAt, svcVars, nCalls>>

\* readMapAndSend takes the read lock and makes its first lookup
PubReadMap ==
  /\ ~crashed
  /\ ppc = "readMap"
  /\ rlocked' = TRUE
  /\ todo' = Bucket(LookupHash(cur, lk))
  /\ ppc' = "sendMsgs"
  /\ UNCHANGED <<fnVars, subVars, chanVars, cur, lk, evict, pc, arg, ret, crashed,
                 histVars, svcVars, nCalls>>

\* sendMsgs picks the next subscriber of the bucket (map order is random)
\* and sendMsgRecoverable calls its MessageConfig
PubCallStart(id) ==
  /\ ~crashed
  /\ ppc = "sendMsgs"
  /\ id \in todo
  /\ todo' = todo \ {id}
  /\ ppc' = "call"
  /\ calls' = Append(calls, [ev |-> Len(enq), id |-> id, path |-> cur,
                             by |-> "publish"])
  /\ active' = active \cup {[ev |-> Len(enq), id |-> id]}
  /\ UNCHANGED <<fnVars, subVars, rlocked, chanVars, cur, lk, evict, pc, arg, ret,
                 crashed, enq, failed, panicAt, subsAtRecv, svcVars, nCalls>>

\* mutant of sendMsgRecoverable: no deferred recover, a panic goes through
sendMsgNoRecover(out) ==
  CASE out = "nil"      -> "nil"
    [] out = "err"      -> "err"
    [] out = "panicErr" -> "PANIC"
    [] out = "panicVal" -> "PANIC"
    [] out = "panicNil" -> "PANIC"

\* sendMsgRecoverable: the error it returns for an outcome of MessageConfig.
\* A panic is recovered; it is turned into an error when recover() returns
\* a value that is not nil.  "panicNil" is panic(nil) under a toolchain
\* whose recover() returns nil for it (Go before 1.21, or panicnil=1): the
\* named result keeps the nil it had.  Under the other toolchains
\* panic(nil) arrives as a *runtime.PanicNilError, which is "panicErr"
sendMsgRecoverable(out) ==
  CASE out = "nil"      -> "nil"
    [] out = "err"      -> "err"
    [] out = "panicErr" -> "recErr"
    [] out = "panicVal" -> "errorf"
    [] out = "panicNil" -> "nil"

\* MessageConfig returns or panics; sendMsgs appends the id to evict when
\* sendMsgRecoverable returned an error
PubCallReturn(x, out) ==
  /\ ~crashed
  /\ ppc = "call"
  /\ x \in active
  /\ active' = active \ {x}
  /\ LET err == sendMsgRecoverable(out) IN
     IF err = "PANIC"
     THEN /\ crashed' = TRUE
          /\ ppc' = "panic"
          /\ UNCHANGED <<evict, failed, panicAt>>
     ELSE /\ crashed' = crashed
          /\ ppc' = "sendMsgs"
          /\ evict' = IF err # "nil" THEN Append(evict, x.id) ELSE evict
          /\ failed' = IF /\ out # "nil"
                           /\ \A f \in failed :
                                f.id # x.id \/ f.conv # (err # "nil")
                        THEN failed \cup {[ev |-> x.ev, id |-> x.id,
                                           conv |-> err # "nil"]}
                        ELSE failed
          /\ panicAt' = IF /\ out \in {"panicErr", "panicVal", "panicNil"}
                           /\ panicAt = 0
                         THEN x.ev ELSE panicAt
  /\ UNCHANGED <<fnVars, subVars, rlocked, chanVars, cur, lk, todo, pc, arg, ret,
                 enq, calls, subsAtRecv, svcVars, nCalls>>

\* the bucket is done.  After the first lookup of a level readMapAndSend
\* makes the second one; after the second it releases the read lock and
\* publish goes on to the next level, to the evictions or to the select
PubNextLookup ==
  /\ ~crashed
  /\ ppc = "sendMsgs"
  /\ todo = {}
  /\ IF lk % 2 = 1
     THEN /\ lk' = lk + 1
          /\ todo' = Bucket(LookupHash(cur, lk + 1))
          /\ UNCHANGED <<rlocked, ppc>>
     ELSE /\ rlocked' = FALSE
          /\ todo' = todo
          /\ IF lk < 6
             THEN lk' = lk + 1 /\ ppc' = "readMap"
             ELSE lk' = 0 /\ ppc' = IF evict = << >> THEN "select" ELSE "evict"
  /\ UNCHANGED <<fnVars, subVars, chanVars, cur, evict, pc, arg, ret, crashed,
                 histVars, svcVars, nCalls>>

\* remove all failed Subscribers: one Unsubscribe per entry of evict
PubEvict ==
  /\ ~crashed
  /\ ppc = "evict"
  /\ subMap' = MapRemove(subMap, Head(evict))
  /\ evict' = Tail(evict)
  /\ ppc' = IF Tail(evict) = << >> THEN "select" ELSE "evict"
  /\ UNCHANGED <<fnVars, subAutoInc, topicOf, subRet, issued, rlocked, chanVars,
                 cur, lk, todo, pc, arg, ret, crashed, histVars, svcVars,
                 nCalls>>

\* mutant of PubRecvStop: the stop signal is also taken between two
\* receivers of a bucket
PubRecvStopEarly(c) ==
  /\ ~crashed
  /\ ppc \in {"select", "sendMsgs"}
  /\ pc[c] = "close_stop"
  /\ ~stopClosed
  /\ pc' = [pc EXCEPT ![c] = "close_pubPath"]
  /\ ppc' = "ack"
  /\ UNCHANGED <<fnVars, subVars, rlocked, chanVars, cur, lk, todo, evict, arg, ret,
                 crashed, histVars, svcVars, nCalls>>

\* case <-s.stop: the goroutine takes the stop signal of a Close that is
\* blocked in s.stop <- struct{}{}
PubRecvStop(c) ==
  /\ ~crashed
  /\ AtSelect
  /\ pc[c] = "close_stop"
  /\ ~stopClosed
  /\ pc' = [pc EXCEPT ![c] = "close_pubPath"]
  /\ ppc' = "ack"
  /\ UNCHANGED <<fnVars, subVars, rlocked, chanVars, cur, lk, todo, evict, arg, ret,
                 crashed, histVars, svcVars, nCalls>>

\* s.closeErr <- nil meets return <-s.closeErr of Close; the goroutine
\* returns
PubAck(c) ==
  /\ ~crashed
  /\ ppc = "ack"
  /\ pc[c] = "close_recv"
  /\ ~closeErrClosed
  /\ ppc' = "done"
  /\ pc' = [pc EXCEPT ![c] = "close_defer"]
  /\ UNCHANGED <<fnVars, subVars, rlocked, chanVars, cur, lk, todo, evict, arg, ret,
                 crashed, histVars, svcVars, nCalls>>

\* ---------------------------------------------------------------- Close
\* if s.closed { return AlreadyClosed }
CloseBegin(c) ==
  /\ ~crashed
  /\ pc[c] = "idle"
  /\ nCalls.close < MaxCloses
  /\ nCalls' = [nCalls EXCEPT !.close = @ + 1]
  /\ IF closed
     THEN /\ ret' = [ret EXCEPT ![c] = "AlreadyClosed"]
          /\ pc' = pc
     ELSE /\ pc' = [pc EXCEPT ![c] = "close_set"]
          /\ ret' = ret
  /\ UNCHANGED <<fnVars, subVars, rlocked, chanVars, pubVars, arg, crashed, histVars,
                 svcVars>>

\* s.closed = true
CloseSetFlag(c) ==
  /\ ~crashed
  /\ pc[c] = "close_set"
  /\ closed' = TRUE
  /\ pc' = [pc EXCEPT ![c] = "close_stop"]
  /\ UNCHANGED <<fnVars, subVars, rlocked, pubPathClosed, stopClosed, closeErrClosed,
                 pubVars, arg, ret, crashed, histVars, svcVars, nCalls>>

\* s.stop <- struct{}{} on a channel that another Close has closed: panic.
\* The deferred close(s.closeErr) runs while the panic unwinds Close, so
\* closeErr is closed afterwards (by this call, if it was not before)
CloseStopPanic(c) ==
  /\ ~crashed
  /\ pc[c] = "close_stop"
  /\ stopClosed
  /\ pc' = [pc EXCEPT ![c] = "panic_close"]
  /\ crashed' = TRUE
  /\ closeErrClosed' = TRUE
  /\ UNCHANGED <<fnVars, subVars, rlocked, closed, pubPathClosed, stopClosed,
                 pubVars, arg, ret, histVars, svcVars, nCalls>>

\* close(s.pubPath); when it panics, the deferred close(s.closeErr) runs
ClosePubPath(c) ==
  /\ ~crashed
  /\ pc[c] = "close_pubPath"
  /\ IF pubPathClosed
     THEN pc' = [pc EXCEPT ![c] = "panic_close"] /\ crashed' = TRUE
          /\ closeErrClosed' = TRUE
          /\ UNCHANGED pubPathClosed
     ELSE pc' = [pc EXCEPT ![c] = "close_stopCh"] /\ pubPathClosed' = TRUE
          /\ UNCHANGED <<crashed, closeErrClosed>>
  /\ UNCHANGED <<fnVars, subVars, rlocked, closed, stopClosed,
                 pubVars, arg, ret, histVars, svcVars, nCalls>>

\* close(s.stop); when it panics, the deferred close(s.closeErr) runs
CloseStopCh(c) ==
  /\ ~crashed
  /\ pc[c] = "close_stopCh"
  /\ IF stopClosed
     THEN pc' = [pc EXCEPT ![c] = "panic_close"] /\ crashed' = TRUE
          /\ closeErrClosed' = TRUE
          /\ UNCHANGED stopClosed
     ELSE pc' = [pc EXCEPT ![c] = "close_recv"] /\ stopClosed' = TRUE
          /\ UNCHANGED <<crashed, closeErrClosed>>
  /\ UNCHANGED <<fnVars, subVars, rlocked, closed, pubPathClosed,
                 pubVars, arg, ret, histVars, svcVars, nCalls>>

\* the deferred close(s.closeErr), then Close returns the nil it received
CloseDefer(c) ==
  /\ ~crashed
  /\ pc[c] = "close_defer"
  /\ IF closeErrClosed
     THEN pc' = [pc EXCEPT ![c] = "panic_close"] /\ crashed' = TRUE
          /\ UNCHANGED <<closeErrClosed, ret>>
     ELSE pc' = [pc EXCEPT ![c] = "idle"] /\ closeErrClosed' = TRUE
          /\ ret' = [ret EXCEPT ![c] = "nil"]
          /\ UNCHANGED crashed
  /\ UNCHANGED <<fnVars, subVars, rlocked, closed, pubPathClosed, stopClosed,
                 pubVars, arg, histVars, svcVars, nCalls>>

\* ------------------------------------------------------------ Storage
\* values a caller writes
Values == {7000, 8085, 8090}

\* paths written through Service.Set
SetPaths ==
  { PathDefault(RoutePayment), PathWebsite(RoutePayment),
    PathStore(RoutePayment) }

\* mutant of MinMaxInt64: the lower bound is not tested
MinMaxInt64NoMin(conds, v) ==
  IF v <= conds[2] THEN "nil" ELSE "NotValid"

\* validation.MinMaxInt64.Observe with two conditions: the value has to be
\* within [min, max]
MinMaxInt64(conds, v) ==
  IF v >= conds[1] /\ v <= conds[2] THEN "nil" ELSE "NotValid"

\* the observers registered for BeforeSet, by route
BeforeSet == [ r \in {RoutePayment} |-> <<8080, 8090>> ]

\* ObserverRegistry.Evaluate for the BeforeSet event
EvaluateBeforeSet(p, v) ==
  IF p.route \in DOMAIN BeforeSet THEN MinMaxInt64(BeforeSet[p.route], v)
  ELSE "nil"

\* Storage.Set on the memory map
StorageSet(st, p, v) ==
  [ k \in DOMAIN st \cup {p} |-> IF k = p THEN v ELSE st[k] ]

\* Service.Set up to the publication: the BeforeSet observers run, then
\* Storage.Set; either error is returned and ends the call
ServiceSet(c, p, v, storeOk) ==
  /\ ~crashed
  /\ pc[c] = "idle"
  /\ nCalls.send < MaxEvents
  /\ nCalls' = [nCalls EXCEPT !.send = @ + 1]
  /\ mark' = [mark EXCEPT ![c] = Len(enq)]
  /\ LET verr == EvaluateBeforeSet(p, v) IN
     IF verr # "nil"
     THEN /\ ret' = [ret EXCEPT ![c] = verr]
          /\ UNCHANGED <<storage, pc, arg>>
     ELSE IF ~storeOk
     THEN /\ ret' = [ret EXCEPT ![c] = "StorageErr"]
          /\ UNCHANGED <<storage, pc, arg>>
     ELSE /\ storage' = StorageSet(storage, p, v)
          /\ pc' = [pc EXCEPT ![c] = "set_publish"]
          /\ arg' = [arg EXCEPT ![c] = p]
          /\ ret' = [ret EXCEPT ![c] = "none"]
  /\ UNCHANGED <<fnVars, subVars, rlocked, chanVars, pubVars, crashed, histVars,
                 readRes, nOk, getRes, dbVars>>

\* Service.Set publishes the change: s.sendMsg(p)
SetPublish(c) ==
  /\ ~crashed
  /\ pc[c] = "set_publish"
  /\ sendMsg(c, arg[c])
  /\ UNCHANGED <<fnVars, subVars, rlocked, chanVars, pubVars, ret, crashed, histVars,
                 svcVars, nCalls>>

\* Service.Set returns nil
SetReturn(c) ==
  /\ ~crashed
  /\ pc[c] = "set_return"
  /\ pc' = [pc EXCEPT ![c] = "idle"]
  /\ ret' = [ret EXCEPT ![c] = "nil"]
  /\ nOk' = nOk + 1
  /\ UNCHANGED <<fnVars, subVars, rlocked, chanVars, pubVars, arg, crashed, histVars,
                 storage, readRes, mark, nCalls, getRes, dbVars>>

\* mutant of ScopeChain: the broadest scope is queried first
ScopeChainBroadFirst(parent, current, route) ==
  <<PathDefault(route)>>
  \o (IF parent # 0 THEN <<MakePath("websites", parent, route)>> ELSE << >>)
  \o (IF current # 0 THEN <<MakePath("stores", current, route)>> ELSE << >>)

\* the scopes a Scoped view queries, most specific first; a level whose id
\* is 0 is not queried
ScopeChain(parent, current, route) ==
  (IF current # 0 THEN <<MakePath("stores", current, route)>> ELSE << >>)
  \o (IF parent # 0 THEN <<MakePath("websites", parent, route)>> ELSE << >>)
  \o <<PathDefault(route)>>

RECURSIVE FirstHit(_, _)
\* Storage.Value along the chain: NotFound falls back to the next level
FirstHit(st, chain) ==
  IF chain = << >> THEN [err |-> "NotFound", val |-> 0, from |-> "none"]
  ELSE IF Head(chain) \in DOMAIN st
       THEN [err |-> "nil", val |-> st[Head(chain)], from |-> Head(chain).scope]
       ELSE FirstHit(st, Tail(chain))

\* Scoped.Value: a read through the view (parent website, current store)
ScopedValue(c, parent, current) ==
  /\ ~crashed
  /\ pc[c] = "idle"
  /\ LET r == FirstHit(storage, ScopeChain(parent, current, RoutePayment)) IN
     readRes' = [parent |-> parent, current |-> current, err |-> r.err,
                 val |-> r.val, from |-> r.from, tick |-> 1 - readRes.tick]
  /\ UNCHANGED <<fnVars, subVars, rlocked, chanVars, pubVars, pc, arg, ret, crashed,
                 histVars, storage, nOk, mark, nCalls, getRes, dbVars>>

\* ----------------------------------------------------- scope.Perm
\* scope.Type: the scope kinds in the order of the hierarchy. The numbers
\* are those TestPermTop fixes: Perm(44), the bits 2, 3 and 5, has the top
\* scope Website, so the website bit is one of them and the store bit is
\* not, and the enumeration starts with Absent.
TypeAbsent  == 0
TypeDefault == 1
TypeWebsite == 2
TypeGroup   == 3
TypeStore   == 4
maxType     == 5

\* the name of a scope type in a fully qualified path
StrType(t) ==
  CASE t = TypeStore -> "stores" [] t = TypeWebsite -> "websites"
    [] OTHER -> "default"

\* 1 << s
Bit(s) == 2 ^ s

PermDefault == Bit(TypeDefault)
PermWebsite == Bit(TypeDefault) + Bit(TypeWebsite)
PermStore   == Bit(TypeDefault) + Bit(TypeWebsite) + Bit(TypeStore)
PermStoreReverse   == Bit(TypeStore)
PermWebsiteReverse == Bit(TypeStore) + Bit(TypeWebsite)

\* mutant of Has: the bit above the scope's bit is tested
HasShifted(bits, s) == (bits \div Bit(s + 1)) % 2 = 1

\* Perm.Has: (bits & Perm(1<<s)) != 0
Has(bits, s) == (bits \div Bit(s)) % 2 = 1

\* mutant of Top: the website bit is tested before the store bit
TopWebsiteFirst(bits) ==
  IF Has(bits, TypeWebsite) THEN TypeWebsite
  ELSE IF Has(bits, TypeStore) THEN TypeStore
  ELSE TypeDefault

\* Perm.Top: the highest scope stored in the bit set
Top(bits) ==
  IF Has(bits, TypeStore) THEN TypeStore
  ELSE IF Has(bits, TypeWebsite) THEN TypeWebsite
  ELSE TypeDefault

\* ------------------------------------------------------- Scoped view
\* the paths a Scoped view may query for a route when it is asked at the
\* scope `top`, most specific first: the store level when the store id is
\* set and PermStoreReverse has top, the website level when the website id
\* is set and PermWebsiteReverse has top, and the default level
PermittedChain(parent, current, route, top) ==
  (IF current # 0 /\ Has(PermStoreReverse, top)
   THEN <<MakePath("stores", current, route)>> ELSE << >>)
  \o (IF parent # 0 /\ Has(PermWebsiteReverse, top)
      THEN <<MakePath("websites", parent, route)>> ELSE << >>)
  \o <<PathDefault(route)>>

RECURSIVE Walk(_, _, _, _)
\* the view queries the chain in order and records every path it queries;
\* it stops on the first value and on the first error that is not NotFound
\* (fail: the Service answers the query with a Fatal error)
Walk(st, chain, fail, seen) ==
  IF chain = << >> THEN [err |-> "NotFound", val |-> 0, invokes |-> seen]
  ELSE LET q == Append(seen, Head(chain)) IN
       IF fail THEN [err |-> "Fatal", val |-> 0, invokes |-> q]
       ELSE IF Head(chain) \in DOMAIN st
       THEN [err |-> "nil", val |-> st[Head(chain)], invokes |-> q]
       ELSE Walk(st, Tail(chain), fail, q)

\* Scoped.Time(route, scp) of the view Scoped(parent, current)
ScopedTime(st, parent, current, route, scp, fail) ==
  Walk(st, PermittedChain(parent, current, route, scp), fail, << >>)

\* ----------------------------------------------------- typed adapter
\* the Default of a field descriptor: nil, a value that can be converted,
\* or a value that cannot; DefaultTime is what the good one converts to
Defaults == {"nil", "ok", "bad"}
DefaultTime == 7070

\* conv.ToTimeE of a Default
ToTimeE(d) ==
  IF d = "ok" THEN [err |-> "nil", val |-> DefaultTime]
  ELSE [err |-> "conv", val |-> 0]

\* mutant of initScope: an adapter without field may read at store scope
initScopeStore == PermStore

\* baseValue.initScope: the scopes of an adapter without field descriptor
initScope == PermDefault

\* mutant of TimeValue: every error of the view is taken for NotFound
TimeValueSwallow(st, field, scopes, def, parent, current, fail) ==
  LET scp == IF field THEN Top(scopes) ELSE Top(initScope)
      d   == IF field /\ def # "nil" THEN ToTimeE(def)
             ELSE [err |-> "nil", val |-> 0]
      r   == ScopedTime(st, parent, current, RoutePayment, scp, fail)
  IN  IF d.err # "nil"
      THEN [err |-> "NotValid", wrapped |-> FALSE, val |-> 0,
            invokes |-> << >>]
      ELSE IF r.err = "nil"
      THEN [err |-> "nil", wrapped |-> FALSE, val |-> r.val,
            invokes |-> r.invokes]
      ELSE [err |-> "nil", wrapped |-> FALSE, val |-> d.val,
            invokes |-> r.invokes]

\* Time.Value(sg): the Default of the field is converted first, then the
\* view is asked at the top scope of the field's scopes; a NotFound of the
\* view leaves the Default, any other error is wrapped and returned
TimeValue(st, field, scopes, def, parent, current, fail) ==
  LET scp == IF field THEN Top(scopes) ELSE Top(initScope)
      d   == IF field /\ def # "nil" THEN ToTimeE(def)
             ELSE [err |-> "nil", val |-> 0]
      r   == ScopedTime(st, parent, current, RoutePayment, scp, fail)
  IN  IF d.err # "nil"
      THEN [err |-> "NotValid", wrapped |-> FALSE, val |-> 0,
            invokes |-> << >>]
      ELSE IF r.err = "nil"
      THEN [err |-> "nil", wrapped |-> FALSE, val |-> r.val,
            invokes |-> r.invokes]
      ELSE IF r.err # "NotFound"
      THEN [err |-> r.err, wrapped |-> TRUE, val |-> d.val,
            invokes |-> r.invokes]
      ELSE [err |-> "nil", wrapped |-> FALSE, val |-> d.val,
            invokes |-> r.invokes]

\* the scope sets of the field descriptors: none, the three presets, and
\* a set with a gap, PermDefault.Set(Store)
FieldScopes ==
  {0, PermDefault, PermWebsite, PermStore,
   Bit(TypeDefault) + Bit(TypeStore)}

\* a client asks an adapter for its value through Scoped(parent, current)
CallTimeValue(c, field, scopes, def, parent, current, fail) ==
  /\ ~crashed
  /\ pc[c] = "idle"
  /\ \E r \in {TimeValue(storage, field, scopes, def, parent, current, fail)} :
     getRes' = [field |-> field, scopes |-> scopes, def |-> def,
                parent |-> parent, current |-> current, fail |-> fail,
                err |-> r.err, wrapped |-> r.wrapped, val |-> r.val,
                invokes |-> r.invokes]
  /\ UNCHANGED <<fnVars, subVars, rlocked, chanVars, pubVars, pc, arg, ret, crashed,
                 histVars, storage, readRes, nOk, mark, nCalls, dbVars>>

\* ------------------------------------------------------------ DBStorage
\* keys and values of the calls into the SQL storage: one route at two
\* scopes and a second route
DBKeys == { PathDefault(RoutePayment), PathStore(RoutePayment),
            PathDefault(RouteSystem) }
\* a key whose route has two parts only
DBBadKey == PathDefault(<<"pp", "port">>)
DBValues == {8085, 8090}
\* the Set calls: one key is written with both values, the same route at
\* another scope with one; the third key is only read
DBSets ==
  { <<PathStore(RoutePayment), v>> : v \in DBValues }
    \cup { <<PathDefault(RoutePayment), 8085>> }

RECURSIVE ToStringE(_)
\* conv.ToStringE of an integer: its decimal digits
ToStringE(v) ==
  IF v < 10 THEN <<Digits[v + 1]>>
  ELSE ToStringE(v \div 10) \o <<Digits[(v % 10) + 1]>>

\* the columns that identify a row: scp.StrType(), id, key.Level(-1)
RowKey(p) == <<p.scope, p.id, JoinChars(Level(p, -1))>>

\* the statement a call uses
StmtOf(op) ==
  CASE op = "Set" -> "Write" [] op = "Value" -> "Read" [] op = "AllKeys" -> "All"

\* ResurrectStmt.StartStmtUse: one more execution in flight
StartStmtUse(st, s) == [st EXCEPT ![s].inUse = @ + 1]

\* ResurrectStmt.StopStmtUse: the execution is over
StopStmtUse(st, s) == [st EXCEPT ![s].inUse = @ - 1]

\* mutant of DBStart: the call does not announce that it uses the statement
DBStartNoUse(c, op, key, v) ==
  /\ ~crashed
  /\ dbpc[c] = "idle"
  /\ dbpc' = [dbpc EXCEPT ![c] = "started"]
  /\ dbop' = [dbop EXCEPT ![c] = [op |-> op, key |-> key, val |-> v,
                                   res |-> NoRet]]
  /\ UNCHANGED <<fnVars, subVars, rlocked, chanVars, pubVars, pc, arg, ret, crashed,
                 histVars, storage, readRes, nOk, mark, nCalls, getRes,
                 table, stmt, dbRet, lastSet>>

\* the first statement of Set, Value and AllKeys: StartStmtUse, with the
\* StopStmtUse deferred
DBStart(c, op, key, v) ==
  /\ ~crashed
  /\ dbpc[c] = "idle"
  /\ stmt' = StartStmtUse(stmt, StmtOf(op))
  /\ dbpc' = [dbpc EXCEPT ![c] = "started"]
  /\ dbop' = [dbop EXCEPT ![c] = [op |-> op, key |-> key, val |-> v,
                                   res |-> NoRet]]
  /\ UNCHANGED <<fnVars, subVars, rlocked, chanVars, pubVars, pc, arg, ret, crashed,
                 histVars, storage, readRes, nOk, mark, nCalls, getRes,
                 table, dbRet, lastSet>>

\* what is kept of a call that ends with an error before the execution:
\* the result of a Value call
DBFail(c, err) ==
  IF dbop[c].op = "Value"
  THEN [op |-> "Value", key |-> dbop[c].key, err |-> err, val |-> << >>,
        row |-> "none"]
  ELSE dbRet

\* up to the execution: Set converts the value, then the call obtains the
\* statement, which is prepared again when it is not open, then Set and
\* Value take key.Level(-1); an error of the conversion, of the preparation
\* or of Level ends the call
DBStmt(c, convOk, prepOk) ==
  /\ ~crashed
  /\ dbpc[c] = "started"
  /\ LET s == StmtOf(dbop[c].op) IN
     IF dbop[c].op = "Set" /\ ~convOk
     THEN /\ stmt' = StopStmtUse(stmt, s)
          /\ dbpc' = [dbpc EXCEPT ![c] = "idle"]
          /\ dbRet' = DBFail(c, "ConvErr")
     ELSE IF stmt[s].open # "open" /\ ~prepOk
     THEN /\ stmt' = StopStmtUse(stmt, s)
          /\ dbpc' = [dbpc EXCEPT ![c] = "idle"]
          /\ dbRet' = DBFail(c, "StmtErr")
     ELSE IF dbop[c].op # "AllKeys" /\ LevelErr(dbop[c].key, -1) # "nil"
     THEN /\ stmt' = StopStmtUse([stmt EXCEPT ![s].open = "open"], s)
          /\ dbpc' = [dbpc EXCEPT ![c] = "idle"]
          /\ dbRet' = DBFail(c, "LevelErr")
     ELSE /\ stmt' = [stmt EXCEPT ![s].open = "open"]
          /\ dbpc' = [dbpc EXCEPT ![c] = "exec"]
          /\ dbRet' = dbRet
  /\ UNCHANGED <<fnVars, subVars, rlocked, chanVars, pubVars, pc, arg, ret, crashed,
                 histVars, storage, readRes, nOk, mark, nCalls, getRes,
                 table, dbop, lastSet>>

\* mutant of Upsert: the row is identified by its path column alone
UpsertByPath(t, k, str) ==
  [ x \in DOMAIN t \cup {k} |->
      IF x[3] = k[3] THEN [valid |-> TRUE, str |-> str] ELSE t[x] ]

\* the table after INSERT ... ON DUPLICATE KEY UPDATE value
Upsert(t, k, str) ==
  [ x \in DOMAIN t \cup {k} |->
      IF x = k THEN [valid |-> TRUE, str |-> str] ELSE t[x] ]

\* stmt.QueryRow(...).Scan(&data): sql.ErrNoRows when no row matches
QueryRowScan(t, k) ==
  IF k \notin DOMAIN t THEN [err |-> "ErrNoRows", valid |-> FALSE, str |-> << >>]
  ELSE [err |-> "nil", valid |-> t[k].valid, str |-> t[k].str]

\* the kind of an error; Wrapf keeps the kind of the error it wraps, and
\* sql.ErrNoRows and the errors of the driver have none
Kind(err) == IF err = "errKeyNotFound" THEN "NotFound" ELSE "none"

\* the state of the row of a key
RowOf(t, k) ==
  IF k \notin DOMAIN t THEN "none" ELSE IF t[k].valid THEN "valid" ELSE "null"

\* the execution, a round trip to the server: stmt.Exec of Set writes the
\* row, QueryRow(...).Scan of Value reads it, Query of AllKeys lists the
\* rows.  What the server has done is visible to the other clients from
\* here on; the call keeps its result until it returns.  A statement that
\* Stop has closed meanwhile gives an error
DBExec(c, execOk) ==
  /\ ~crashed
  /\ dbpc[c] = "exec"
  /\ LET o == dbop[c]
         s == StmtOf(o.op)
         k == RowKey(o.key)
         q == QueryRowScan(table, k)
         fail == [op |-> o.op, key |-> o.key, err |-> "ExecErr",
                  val |-> << >>, row |-> "none"]
         ok == [op |-> o.op, key |-> o.key, err |-> "nil", val |-> << >>,
                row |-> IF o.op = "AllKeys" THEN "none" ELSE RowOf(table, k)]
     IN
     /\ dbpc' = [dbpc EXCEPT ![c] = "reply"]
     /\ IF stmt[s].open # "open"
        THEN /\ dbop' = [dbop EXCEPT ![c].res = [fail EXCEPT !.err = "StmtClosed"]]
             /\ table' = table
        ELSE IF ~execOk
        THEN /\ dbop' = [dbop EXCEPT ![c].res = fail]
             /\ table' = table
        ELSE IF o.op = "Set"
        THEN /\ table' = Upsert(table, k, ToStringE(o.val))
             /\ dbop' = [dbop EXCEPT ![c].res = ok]
        ELSE IF o.op = "Value"
        THEN /\ dbop' = [dbop EXCEPT ![c].res =
                           IF q.err # "nil" THEN [ok EXCEPT !.err = q.err]
                           ELSE IF q.valid THEN [ok EXCEPT !.val = q.str]
                           ELSE [ok EXCEPT !.err = "errKeyNotFound"]]
             /\ table' = table
        ELSE /\ dbop' = [dbop EXCEPT ![c].res = ok]
             /\ table' = table
  /\ UNCHANGED <<fnVars, subVars, rlocked, chanVars, pubVars, pc, arg, ret, crashed,
                 histVars, storage, readRes, nOk, mark, nCalls, getRes,
                 stmt, dbRet, lastSet>>

\* the call returns what the execution gave, with the deferred StopStmtUse
DBReturn(c) ==
  /\ ~crashed
  /\ dbpc[c] = "reply"
  /\ LET o == dbop[c] IN
     /\ stmt' = StopStmtUse(stmt, StmtOf(o.op))
     /\ dbpc' = [dbpc EXCEPT ![c] = "idle"]
     /\ dbop' = [dbop EXCEPT ![c] = NoOp]
     /\ dbRet' = IF o.op = "Value" THEN o.res ELSE dbRet
     /\ lastSet' = IF o.op = "Set" /\ o.res.err = "nil"
                   THEN [ x \in DOMAIN lastSet \cup {o.key} |->
                           IF x = o.key THEN o.val ELSE lastSet[x] ]
                   ELSE lastSet
  /\ UNCHANGED <<fnVars, subVars, rlocked, chanVars, pubVars, pc, arg, ret, crashed,
                 histVars, storage, readRes, nOk, mark, nCalls, getRes, table>>

\* DBStorage.Start: the idle checkers of the three statements are started
DBStorageStart ==
  /\ ~crashed
  /\ \A s \in Stmts : stmt[s].checker = "off"
  /\ stmt' = [ s \in Stmts |-> [stmt[s] EXCEPT !.checker = "on"] ]
  /\ UNCHANGED <<fnVars, subVars, rlocked, chanVars, pubVars, pc, arg, ret, crashed,
                 histVars, storage, readRes, nOk, mark, nCalls, getRes,
                 table, dbpc, dbop, dbRet, lastSet>>

\* the order in which DBStorage.Stop goes through the statements
StopOrder == <<"All", "Read", "Write">>

\* one step of DBStorage.Stop, called once after Start: StopIdleChecker of
\* the i-th statement stops its checker and closes the statement, whether
\* it is in use or not; when the Close returns an error Stop returns it
\* and leaves the statements after this one as they are
StopIdleChecker(i, closeOk) ==
  /\ ~crashed
  /\ stmt[StopOrder[i]].checker = "on"
  /\ \A j \in 1..3 : stmt[StopOrder[j]].checker =
                        IF j < i THEN "stopped" ELSE "on"
  /\ ~closeOk => stmt[StopOrder[i]].open = "open"
  /\ stmt' = [stmt EXCEPT ![StopOrder[i]] =
                [@ EXCEPT !.checker = IF closeOk THEN "stopped" ELSE "failed",
                          !.open = IF @ = "open" THEN "closed" ELSE @]]
  /\ UNCHANGED <<fnVars, subVars, rlocked, chanVars, pubVars, pc, arg, ret, crashed,
                 histVars, storage, readRes, nOk, mark, nCalls, getRes,
                 table, dbpc, dbop, dbRet, lastSet>>

\* the idle checker: the idle time has passed since the last use of the
\* statement and nothing uses it, so it is closed
Sweep(s) ==
  /\ ~crashed
  /\ stmt[s].checker = "on"
  /\ stmt[s].open = "open"
  /\ stmt[s].inUse = 0
  /\ stmt' = [stmt EXCEPT ![s].open = "closed"]
  /\ UNCHANGED <<fnVars, subVars, rlocked, chanVars, pubVars, pc, arg, ret, crashed,
                 histVars, storage, readRes, nOk, mark, nCalls, getRes,
                 table, dbpc, dbop, dbRet, lastSet>>

\* another user of the database leaves a row with a NULL value
RowNull(key) ==
  /\ ~crashed
  /\ RowKey(key) \notin DOMAIN table
  /\ table' = [ x \in DOMAIN table \cup {RowKey(key)} |->
                  IF x = RowKey(key) THEN [valid |-> FALSE, str |-> << >>]
                  ELSE table[x] ]
  /\ UNCHANGED <<fnVars, subVars, rlocked, chanVars, pubVars, pc, arg, ret, crashed,
                 histVars, storage, readRes, nOk, mark, nCalls, getRes,
                 stmt, dbpc, dbop, dbRet, lastSet>>

\* ------------------------------------------- scope.Perm, textual forms
\* Type.String
TypeName(t) ==
  CASE t = TypeAbsent  -> <<"A","b","s","e","n","t">>
    [] t = TypeDefault -> <<"D","e","f","a","u","l","t">>
    [] t = TypeWebsite -> <<"W","e","b","s","i","t","e">>
    [] t = TypeGroup   -> <<"G","r","o","u","p">>
    [] t = TypeStore   -> <<"S","t","o","r","e">>

\* the Perm values of the model: the six lowest bits, one more than the
\* scope kinds use
PermBits == 6
Perms == 0..(2 ^ PermBits - 1)

\* the test of Human and String: (bits & (1 << i)) != 0
BitSet(bits, i) == (bits \div Bit(i)) % 2 = 1

RECURSIVE SumBits(_)
\* the Perm with exactly the bits of the scopes S
SumBits(S) ==
  IF S = {} THEN 0
  ELSE LET x == CHOOSE y \in S : TRUE IN Bit(x) + SumBits(S \ {x})

\* Perm.Set: bits |= 1 << i for every scope
SetPerm(bits, scopes) == bits + SumBits({ s \in scopes : ~BitSet(bits, s) })

\* Perm.All
All(bits) == SetPerm(bits, {TypeDefault, TypeWebsite, TypeStore})

RECURSIVE HumanFrom(_, _)
HumanFrom(bits, i) ==
  IF i >= maxType THEN << >>
  ELSE (IF BitSet(bits, i) THEN <<TypeName(i)>> ELSE << >>)
         \o HumanFrom(bits, i + 1)

\* Perm.Human: the names of the set bits below maxType, lowest bit first
Human(bits) == HumanFrom(bits, 0)

RECURSIVE StringFrom(_, _)
StringFrom(bits, i) ==
  IF i >= maxType THEN << >>
  ELSE (IF BitSet(bits, i) THEN TypeName(i) \o <<",">> ELSE << >>)
         \o StringFrom(bits, i + 1)

\* Perm.String: every name is written with a comma after it, then the
\* buffer is truncated to its length minus one; bytes.Buffer.Truncate
\* panics when that length is negative
String(bits) ==
  LET buf == StringFrom(bits, 0) IN
  IF Len(buf) - 1 < 0 THEN [panic |-> TRUE, str |-> << >>]
  ELSE [panic |-> FALSE, str |-> SubSeq(buf, 1, Len(buf) - 1)]

nullByte == <<"n","u","l","l">>

RECURSIVE JoinNames(_, _, _)
\* the loop of MarshalJSON: the separator is written after every name but
\* the last
JoinNames(hm, i, sep) ==
  IF i > Len(hm) THEN << >>
  ELSE hm[i] \o (IF i - 1 < Len(hm) - 1 THEN sep ELSE << >>)
         \o JoinNames(hm, i + 1, sep)

\* Perm.MarshalJSON
MarshalJSON(bits) ==
  IF bits = 0 THEN nullByte
  ELSE <<"[", "\"">> \o JoinNames(Human(bits), 1, <<"\"", ",", "\"">>)
         \o <<"\"", "]">>

\* Perm.Top and Perm.Has of a Perm
CallTop(bits) ==
  /\ permRes' = [op |-> "Top", bits |-> bits, top |-> Top(bits),
                 has |-> [k \in 0..(maxType - 1) |-> Has(bits, k)]]
  /\ UNCHANGED <<pathRes, observers, evalRes, loadRes, writer, unsubRet, cb, subVars, rlocked, chanVars, pubVars, pc, arg, ret,
                 crashed, histVars, svcVars, nCalls>>

\* Perm.Set of one or two scopes
CallSet(bits, scopes) ==
  /\ permRes' = [op |-> "Set", bits |-> bits, scopes |-> scopes,
                 out |-> SetPerm(bits, scopes)]
  /\ UNCHANGED <<pathRes, observers, evalRes, loadRes, writer, unsubRet, cb, subVars, rlocked, chanVars, pubVars, pc, arg, ret,
                 crashed, histVars, svcVars, nCalls>>

\* Perm.MarshalJSON
CallMarshalJSON(bits) ==
  /\ permRes' = [op |-> "MarshalJSON", bits |-> bits, err |-> "nil",
                 json |-> MarshalJSON(bits)]
  /\ UNCHANGED <<pathRes, observers, evalRes, loadRes, writer, unsubRet, cb, subVars, rlocked, chanVars, pubVars, pc, arg, ret,
                 crashed, histVars, svcVars, nCalls>>

\* Perm.String
CallString(bits) ==
  /\ permRes' = [op |-> "String", bits |-> bits,
                 panic |-> String(bits).panic, str |-> String(bits).str]
  /\ UNCHANGED <<pathRes, observers, evalRes, loadRes, writer, unsubRet, cb, subVars, rlocked, chanVars, pubVars, pc, arg, ret,
                 crashed, histVars, svcVars, nCalls>>

\* --------------------------------------------------- path.Path, old API
\* the routes handed to the path functions: three valid ones, one of them
\* with an upper-case letter, one with two parts only, and the empty one
PathRoutes ==
  {RouteSystem, RoutePayment, <<"Aa", "bb", "cc">>, <<"pp", "port">>,
   EmptyRoute}

\* the scope ids of the paths
PathIDs == {0, 1, WebsiteID, 3, 4, StoreID, 12, 200, -5}

\* bytes.IndexRune(b, rSeparator), counted from 1; 0 when there is none
IndexSep(chars) ==
  IF \E i \in 1..Len(chars) : chars[i] = "/"
  THEN CHOOSE i \in 1..Len(chars) :
         chars[i] = "/" /\ \A j \in 1..(i - 1) : chars[j] # "/"
  ELSE 0

\* Path.Bind(s, id): a path is its route, as characters, with a scope and
\* a scope id
Bind(route, s, id) == [Route |-> JoinChars(route), Scope |-> s, ID |-> id]

\* strconv.AppendInt(b, id, 10)
AppendInt(id) == IF id < 0 THEN <<"-">> \o ToStringE(-id) ELSE ToStringE(id)

\* Path.StrScope: scope.FromScope(p.Scope).String()
StrScope(p) == SegChars[StrType(p.Scope)]

\* mutant of FQ: the id of the default scope is written as it is
FQKeepID(p) ==
  IF IsValid(p) # "nil" THEN [err |-> IsValid(p), fq |-> << >>]
  ELSE [err |-> "nil",
        fq |-> StrScope(p) \o <<"/">> \o AppendInt(p.ID)
                 \o <<"/">> \o p.Route]

\* Path.FQ: the fully qualified route; the id of a path in the default
\* scope is set to zero
FQ(p) ==
  IF IsValid(p) # "nil" THEN [err |-> IsValid(p), fq |-> << >>]
  ELSE LET id == IF p.Scope = TypeDefault /\ p.ID > 0 THEN 0 ELSE p.ID
       IN  [err |-> "nil",
            fq |-> StrScope(p) \o <<"/">> \o AppendInt(id)
                     \o <<"/">> \o p.Route]

\* scope.ValidBytes: one of the three scope names
ValidBytes(chars) ==
  chars \in {SegChars["default"], SegChars["websites"], SegChars["stores"]}

\* scope.FromBytes
FromBytes(chars) ==
  IF chars = SegChars["websites"] THEN TypeWebsite
  ELSE IF chars = SegChars["stores"] THEN TypeStore
  ELSE TypeDefault

\* the value of a decimal digit
DigitVal(c) == (CHOOSE i \in 1..10 : Digits[i] = c) - 1

RECURSIVE ParseDigits(_, _)
ParseDigits(chars, acc) ==
  IF chars = << >> THEN acc
  ELSE ParseDigits(Tail(chars), 10 * acc + DigitVal(Head(chars)))

\* strconv.ParseInt(s, 10, 64): an optional sign, then decimal digits.  The
\* strings of the model have three digits at most, so the value is always
\* within 64 bits and ErrRange does not occur
ParseInt(chars) ==
  LET signed == chars # << >> /\ Head(chars) \in {"+", "-"}
      digits == IF signed THEN Tail(chars) ELSE chars
  IN  IF digits = << >> \/ \E i \in 1..Len(digits) :
                              digits[i] \notin { Digits[d] : d \in 1..10 }
      THEN [err |-> "ErrSyntax", n |-> 0]
      ELSE [err |-> "nil",
            n |-> IF signed /\ Head(chars) = "-"
                  THEN 0 - ParseDigits(digits, 0)
                  ELSE ParseDigits(digits, 0)]

\* the zero Path
ZeroPath == [Route |-> << >>, Scope |-> 0, ID |-> 0]

\* SplitFQ: the scope name up to the first separator, the id up to the
\* second one, the route after it; an id that is no number is returned as
\* error together with the path
SplitFQ(fqPath) ==
  IF CountSep(fqPath) < Levels + 1
  THEN [err |-> "Incorrect", path |-> ZeroPath]
  ELSE LET fi == IndexSep(fqPath)
           scopeBytes == SubSeq(fqPath, 1, fi - 1)
           rest == SubSeq(fqPath, fi + 1, Len(fqPath))
           fj == IndexSep(rest)
           id == ParseInt(SubSeq(rest, 1, fj - 1))
       IN  IF ~ValidBytes(scopeBytes)
           THEN [err |-> "ErrUnsupportedScope", path |-> ZeroPath]
           ELSE [err |-> id.err,
                 path |-> [Route |-> SubSeq(rest, fj + 1, Len(rest)),
                           Scope |-> FromBytes(scopeBytes), ID |-> id.n]]

\* p.FQ() followed by SplitFQ of the result
CallFQ(route, s, id) ==
  /\ LET p == Bind(route, s, id)
         f == FQ(p)
         sp == IF f.err = "nil" THEN SplitFQ(f.fq)
               ELSE [err |-> "none", path |-> ZeroPath]
     IN  pathRes' = [op |-> "FQ", p |-> p, err |-> f.err, fq |-> f.fq,
                     splitErr |-> sp.err, split |-> sp.path]
  /\ UNCHANGED <<permRes, observers, evalRes, loadRes, writer, unsubRet, cb, subVars, rlocked, chanVars, pubVars, pc, arg, ret,
                 crashed, histVars, svcVars, nCalls>>

\* strings that are no fully qualified path: too few parts, a scope name
\* that does not exist, an id that is no number, a sign without digits
BadFQ ==
  { JoinChars(<<"stores", "5", "pp", "port">>),
    JoinChars(<<"system", "2", "system", "smtp", "host">>),
    JoinChars(<<"stores", "pp", "system", "smtp", "host">>),
    SegChars["stores"] \o <<"/", "-", "/">> \o JoinChars(RouteSystem) }

\* fully qualified paths whose id has a sign
SignedFQ ==
  { SegChars["stores"] \o <<"/", "-", "5", "/">> \o JoinChars(RouteSystem),
    SegChars["stores"] \o <<"/", "+", "5", "/">> \o JoinChars(RouteSystem) }

\* SplitFQ of a string that did not come from FQ
CallSplitFQ(fqPath) ==
  /\ LET sp == SplitFQ(fqPath)
     IN  pathRes' = [op |-> "SplitFQ", p |-> ZeroPath, err |-> "none",
                     fq |-> fqPath, splitErr |-> sp.err, split |-> sp.path]
  /\ UNCHANGED <<permRes, observers, evalRes, loadRes, writer, unsubRet, cb, subVars, rlocked, chanVars, pubVars, pc, arg, ret,
                 crashed, histVars, svcVars, nCalls>>

\* ---------------------------------------------------- ObserverRegistry
\* the observers of the model: two that transform the data and one that
\* rejects odd data
Observers == {"inc", "double", "rejectOdd"}
ObsData == 0..3

\* the events and routes observers are registered for
ObsKeys == { <<"before_set", RoutePayment>>, <<"after_get", RoutePayment>> }

\* Observer.Observe
Observe(o, data) ==
  CASE o = "inc"       -> [data |-> (data + 1) % 4, err |-> "nil"]
    [] o = "double"    -> [data |-> (2 * data) % 4, err |-> "nil"]
    [] o = "rejectOdd" -> IF data % 2 = 1
                          THEN [data |-> data, err |-> "NotValid"]
                          ELSE [data |-> data, err |-> "nil"]

\* the observers of a key, in the order of their registration
ObserversOf(reg, key) == IF key \in DOMAIN reg THEN reg[key] ELSE << >>

\* mutant of Registered: every registration is appended
RegisteredAgain(reg, key, o) ==
  [ k \in DOMAIN reg \cup {key} |->
      IF k = key THEN Append(ObserversOf(reg, key), o) ELSE reg[k] ]

\* the registry after RegisterObserver(key, o): an observer that is
\* registered for the key already is not added again
Registered(reg, key, o) ==
  IF \E i \in 1..Len(ObserversOf(reg, key)) : ObserversOf(reg, key)[i] = o
  THEN reg
  ELSE [ k \in DOMAIN reg \cup {key} |->
           IF k = key THEN Append(ObserversOf(reg, key), o) ELSE reg[k] ]

\* ObserverRegistry.RegisterObserver
RegisterObserver(key, o) ==
  /\ Len(ObserversOf(observers, key)) < MaxObservers
  /\ observers' = Registered(observers, key, o)
  /\ UNCHANGED <<evalRes, loadRes, writer, unsubRet, cb, pathRes, permRes, subVars, rlocked,
                 chanVars, pubVars, pc, arg, ret, crashed, histVars, svcVars,
                 nCalls>>

\* ObserverRegistry.DeregisterObserver: all observers of the key go
DeregisterObserver(key) ==
  /\ key \in DOMAIN observers
  /\ observers' = [ k \in DOMAIN observers \ {key} |-> observers[k] ]
  /\ UNCHANGED <<evalRes, loadRes, writer, unsubRet, cb, pathRes, permRes, subVars, rlocked,
                 chanVars, pubVars, pc, arg, ret, crashed, histVars, svcVars,
                 nCalls>>

RECURSIVE RunObservers(_, _, _, _)
\* the loop of Evaluate: every observer gets the data the one before it has
\* returned; the first error ends the loop
RunObservers(list, data, invoked, datas) ==
  IF list = << >>
  THEN [data |-> data, err |-> "nil", invoked |-> invoked, datas |-> datas]
  ELSE LET r == Observe(Head(list), data) IN
       IF r.err # "nil"
       THEN [data |-> data, err |-> r.err,
             invoked |-> Append(invoked, Head(list)),
             datas |-> Append(datas, data)]
       ELSE RunObservers(Tail(list), r.data, Append(invoked, Head(list)),
                         Append(datas, data))

\* ObserverRegistry.Evaluate(event, path, data)
Evaluate(key, data) ==
  /\ LET list == ObserversOf(observers, key)
         r == RunObservers(list, data, << >>, << >>)
     IN  evalRes' = [op |-> "Evaluate", key |-> key, list |-> list,
                     data |-> data, out |-> r.data, err |-> r.err,
                     invoked |-> r.invoked, datas |-> r.datas]
  /\ UNCHANGED <<observers, loadRes, writer, unsubRet, cb, pathRes, permRes, subVars, rlocked,
                 chanVars, pubVars, pc, arg, ret, crashed, histVars, svcVars,
                 nCalls>>

\* ------------------------------------- loader of observer configurations
\* the parts of an entry of the document, good and bad
DocEvents == {"before_set", "after_set", "before_get", "after_get",
              "before_sunrise"}
KnownEvents == {"before_set", "after_set", "before_get", "after_get"}
\* a route of three parts and one of a single part, as "pay" in the test
DocRoutes == {RoutePayment, <<"pp">>}
\* MinMaxInt64 and Strings are built in, XMLValidation is registered with
\* RegisterCustomObserver, YAMLValidation is not known
DocTypes == {"MinMaxInt64", "Strings", "XMLValidation", "YAMLValidation"}
BuiltIn == {"MinMaxInt64", "Strings"}
CustomTypes == {"XMLValidation"}
\* the condition of an entry: none, one that can be decoded, one that is
\* no JSON, one that names the validator IsPHP
DocConditions == {"absent", "ok", "malformed", "IsPHP"}

\* the documents: one entry each, or a text that is no JSON
Docs ==
  { [json |-> j, event |-> e, route |-> r, type |-> t, condition |-> c] :
      j \in {TRUE}, e \in DocEvents, r \in DocRoutes, t \in DocTypes,
      c \in DocConditions }
  \cup { [json |-> FALSE, event |-> "before_set", route |-> RoutePayment,
          type |-> "MinMaxInt64", condition |-> "ok"] }

\* Route.IsValid of the route of an entry
RouteValid(route) == IsValid(Bind(route, TypeDefault, 0)) = "nil"

\* mutant of MakeObserver: the condition is looked at before the route
MakeObserverConditionFirst(d) ==
  IF d.event \notin KnownEvents THEN "NotFound"
  ELSE IF d.type \in BuiltIn /\ d.condition = "absent" THEN "Empty"
  ELSE IF ~RouteValid(d.route) THEN "NotValid"
  ELSE IF d.type \in BuiltIn
  THEN IF d.type = "Strings" /\ d.condition = "IsPHP"
       THEN "NotSupported" ELSE "nil"
  ELSE IF d.type \in CustomTypes THEN "nil"
  ELSE "NotFound"

\* the observer of one decoded entry: the event, the route, then the type
\* with its condition
MakeObserver(d) ==
  IF d.event \notin KnownEvents THEN "NotFound"
  ELSE IF ~RouteValid(d.route) THEN "NotValid"
  ELSE IF d.type \in BuiltIn
  THEN IF d.condition = "absent" THEN "Empty"
       ELSE IF d.type = "Strings" /\ d.condition = "IsPHP"
       THEN "NotSupported" ELSE "nil"
  ELSE IF d.type \in CustomTypes THEN "nil"
  ELSE "NotFound"

\* RegisterObservers(or, r) with the registerer of the test, which records
\* the calls of RegisterObserver: the document is decoded as a whole, then
\* the observer of the entry is made and registered
RegisterObservers(d) ==
  /\ LET decoded == d.json /\ d.condition # "malformed"
         err == IF ~decoded THEN "BadEncoding" ELSE MakeObserver(d)
     IN  loadRes' = [op |-> "RegisterObservers", doc |-> d, err |-> err,
                     registered |->
                       IF err = "nil"
                       THEN << <<d.event, d.route, d.type>> >> ELSE << >>]
  /\ UNCHANGED <<observers, evalRes, writer, unsubRet, cb, pathRes, permRes, subVars, rlocked,
                 chanVars, pubVars, pc, arg, ret, crashed, histVars, svcVars,
                 nCalls>>

\* ------------------------------------- pubSub, statement by statement
\* Subscribe and Unsubscribe in two steps (s.mu.Lock(), then the write and
\* the deferred Unlock), sendMsg in two steps (the call, then the test of
\* s.closed), and the receive of publish apart from its len(s.subMap).
fnRest == <<pathRes, permRes, observers, evalRes, loadRes>>

\* a Subscribe or Unsubscribe holds the write lock
WriterActive == writer.op # "none"

\* mutant of CanLock: the lock does not wait for the readers
CanLockShared == ~WriterActive

\* s.mu.Lock() can be taken: no reader and no writer holds s.mu
CanLock == ~rlocked /\ ~WriterActive

\* Subscribe up to s.mu.Lock()
SubscribeLock(p) ==
  /\ ~crashed
  /\ ~IsEmpty(p)
  /\ subAutoInc < MaxSubs
  /\ CanLock
  /\ writer' = [op |-> "Subscribe", p |-> p]
  /\ UNCHANGED <<fnRest, unsubRet, cb, subVars, rlocked, chanVars, pubVars, pc, arg, ret,
                 crashed, histVars, svcVars, nCalls>>

\* Unsubscribe up to s.mu.Lock()
UnsubscribeLock(id) ==
  /\ ~crashed
  /\ CanLock
  /\ writer' = [op |-> "Unsubscribe", id |-> id]
  /\ UNCHANGED <<fnRest, unsubRet, cb, subVars, rlocked, chanVars, pubVars, pc, arg, ret,
                 crashed, histVars, svcVars, nCalls>>

\* the rest of Subscribe or Unsubscribe: the write of subMap and the
\* deferred s.mu.Unlock()
WriterDone ==
  /\ ~crashed
  /\ WriterActive
  /\ writer' = NoCall
  /\ IF writer.op = "Subscribe"
     THEN /\ subAutoInc' = NextID
          /\ subMap' = MapInsert(subMap, Hash32(writer.p), NextID)
          /\ topicOf' = Append(topicOf, writer.p)
          /\ issued' = Append(issued, NextID)
          /\ subRet' = [id |-> NextID, err |-> "nil"]
          /\ unsubRet' = unsubRet
     ELSE /\ subMap' = MapRemove(subMap, writer.id)
          /\ unsubRet' = [id |-> writer.id, err |-> "nil"]
          /\ UNCHANGED <<subAutoInc, topicOf, issued, subRet>>
  /\ UNCHANGED <<fnRest, cb, rlocked, chanVars, pubVars, pc, arg, ret,
                 crashed, histVars, svcVars, nCalls>>

\* a client calls sendMsg(p): its next statement tests s.closed
SendMsgCall(c, p) ==
  /\ ~crashed
  /\ pc[c] = "idle"
  /\ nCalls.send < MaxEvents
  /\ nCalls' = [nCalls EXCEPT !.send = @ + 1]
  /\ pc' = [pc EXCEPT ![c] = "send_check"]
  /\ arg' = [arg EXCEPT ![c] = p]
  /\ UNCHANGED <<fnVars, subVars, rlocked, chanVars, pubVars, ret, crashed,
                 histVars, svcVars>>

\* if false == s.closed { s.pubPath <- p }
SendMsgCheck(c) ==
  /\ ~crashed
  /\ pc[c] = "send_check"
  /\ pc' = [pc EXCEPT ![c] = IF closed THEN "idle" ELSE "send_wait"]
  /\ UNCHANGED <<fnVars, subVars, rlocked, chanVars, pubVars, arg, ret,
                 crashed, histVars, svcVars, nCalls>>

\* if len(s.subMap) == 0 { break }, read without s.mu: while a writer is
\* at work the read races with its write and may give either answer
PubLen ==
  /\ ~crashed
  /\ ppc = "len"
  /\ \E empty \in IF WriterActive THEN BOOLEAN ELSE {DOMAIN subMap = {}} :
       IF empty
       THEN ppc' = "select" /\ lk' = lk
       ELSE ppc' = "readMap" /\ lk' = 1
  /\ UNCHANGED <<fnVars, subVars, rlocked, chanVars, cur, todo, evict, pc,
                 arg, ret, crashed, histVars, svcVars, nCalls>>

\* s.mu.RLock() of readMapAndSend waits for the writer
PubReadMapLocked == ~WriterActive /\ PubReadMap

\* the Unsubscribe of an eviction waits for the writer
PubEvictLocked == ~WriterActive /\ PubEvict

\* ------------------------------------------- receivers that call back
\* what a receiver may call on the pubSub that is calling it
Reentries == {"Subscribe", "Unsubscribe", "sendMsg"}

\* the receiver is inside a call of pubSub that cannot go on: in s.mu.Lock()
\* or in s.pubPath <- p
Blocked == ppc \in {"cb_lock", "cb_send"}

\* MessageConfig of the running receiver calls Subscribe, Unsubscribe of
\* its own id, or sendMsg, on the goroutine of publish: the first two come
\* to s.mu.Lock(), the last to the test of s.closed (one such call in a
\* run)
CallbackEnter(x, op) ==
  /\ ~crashed
  /\ ppc = "call"
  /\ x \in active
  /\ cb = NoCall
  /\ op = "Subscribe" => subAutoInc < MaxSubs
  /\ cb' = [op |-> op, id |-> x.id]
  /\ ppc' = IF op = "sendMsg" THEN "cb_check" ELSE "cb_lock"
  /\ UNCHANGED <<fnRest, writer, unsubRet, subVars, rlocked, chanVars, cur,
                 lk, todo, evict, pc, arg, ret, crashed, histVars, svcVars,
                 nCalls>>

\* the call of the receiver goes on when it can: Lock() when s.mu is free,
\* after which the map is written and the call returns; sendMsg returns
\* when s.closed is set and comes to s.pubPath <- p when it is not; the
\* send ends, with a panic that sendMsgRecoverable recovers, when pubPath
\* has been closed.  publish itself is not in its select, so the send finds
\* no receiver
CallbackStep ==
  /\ ~crashed
  /\ \/ /\ ppc = "cb_lock"
        /\ CanLock
        /\ ppc' = "call"
        /\ IF cb.op = "Subscribe"
           THEN /\ subAutoInc' = NextID
                /\ subMap' = MapInsert(subMap, Hash32(cur), NextID)
                /\ topicOf' = Append(topicOf, cur)
                /\ issued' = Append(issued, NextID)
           ELSE /\ subMap' = MapRemove(subMap, cb.id)
                /\ UNCHANGED <<subAutoInc, topicOf, issued>>
     \/ /\ ppc = "cb_check"
        /\ ppc' = IF closed THEN "call" ELSE "cb_send"
        /\ UNCHANGED <<subMap, subAutoInc, topicOf, issued>>
     \/ /\ ppc = "cb_send"
        /\ pubPathClosed
        /\ ppc' = "call"
        /\ UNCHANGED <<subMap, subAutoInc, topicOf, issued>>
  /\ UNCHANGED <<fnRest, writer, unsubRet, cb, subRet, rlocked, chanVars,
                 cur, lk, todo, evict, pc, arg, ret, crashed, histVars,
                 svcVars, nCalls>>

\* -------------------------------------------------------- specification
\* the failed invocations for which sendMsgRecoverable returned an error:
\* MessageConfig returned one, or panicked with a value recover() reports
Converted == { f \in failed : f.conv }

\* the delivery of changes: subscriptions, sendMsg and the publish goroutine
Next ==
  \/ \E p \in Topics \ {PathDefault(EmptyRoute)} : Subscribe(p)
  \/ \E c \in Writers, p \in PubPaths : SendMsg(c, p)
  \/ \E c \in Writers : PubRecvPath(c)
  \/ PubLen
  \/ PubReadMap
  \/ \E id \in 1..MaxSubs : PubCallStart(id)
  \/ \E x \in active, out \in Outcomes \ {"panicNil"} : PubCallReturn(x, out)
  \/ PubNextLookup
  \/ PubEvict

Spec == Init /\ [][Next]_vars

\* the delivery with receivers that fail in every way, a panic(nil) that
\* recover() returns as nil included; one published path, and two topics
\* that match it
NextPanic ==
  \/ \E p \in PanicTopics : Subscribe(p)
  \/ \E c \in Writers : SendMsg(c, PathDefault(RouteSystem))
  \/ \E c \in Writers : PubRecvPath(c)
  \/ PubLen
  \/ PubReadMap
  \/ \E id \in 1..MaxSubs : PubCallStart(id)
  \/ \E x \in active, out \in Outcomes :
        \* a panic(nil) that is recovered as nil happens once in a run
        /\ out = "panicNil" => failed = Converted
        /\ PubCallReturn(x, out)
  \/ PubNextLookup
  \/ PubEvict

SpecPanic == Init /\ [][NextPanic]_vars

\* the Service: writes, reads, and the life cycle of its pubSub
NextSvc ==
  \/ \E c \in Writers, p \in SetPaths, v \in Values, ok \in BOOLEAN :
        ServiceSet(c, p, v, ok)
  \/ \E c \in Writers : SetPublish(c)
  \/ \E c \in Writers : SetReturn(c)
  \/ \E c \in Writers, w \in {0, WebsiteID}, s \in {0, StoreID} :
        ScopedValue(c, w, s)
  \/ \E c \in Writers : SendPanic(c)
  \/ \E c \in Writers : PubRecvPath(c)
  \/ PubLen
  \/ \E c \in Clients : PubRecvStop(c)
  \/ \E c \in Clients : PubAck(c)
  \/ \E c \in Clients : CloseBegin(c)
  \/ \E c \in Clients : CloseSetFlag(c)
  \/ \E c \in Clients : CloseStopPanic(c)
  \/ \E c \in Clients : ClosePubPath(c)
  \/ \E c \in Clients : CloseStopCh(c)
  \/ \E c \in Clients : CloseDefer(c)

SpecSvc == Init /\ [][NextSvc]_vars

\* reads through the typed adapters of values that Service.Set has written
NextRead ==
  \/ \E c \in Writers, p \in SetPaths, v \in Values, ok \in BOOLEAN :
        ServiceSet(c, p, v, ok)
  \/ \E c \in Writers : SetPublish(c)
  \/ \E c \in Writers : SetReturn(c)
  \/ \E c \in Writers : PubRecvPath(c)
  \/ PubLen
  \/ \E c \in Writers, field \in BOOLEAN, scopes \in FieldScopes,
        def \in Defaults, w \in {0, WebsiteID}, s \in {0, StoreID},
        fail \in BOOLEAN :
        \* an adapter without field descriptor has no scopes and no Default
        /\ field \/ (scopes = 0 /\ def = "nil")
        /\ CallTimeValue(c, field, scopes, def, w, s, fail)

SpecRead == Init /\ [][NextRead]_vars

\* the SQL storage and its rows: one client writes two keys and reads, a
\* second one reads the key that is written twice; rows with a NULL value;
\* the idle checkers are started, close idle statements and are stopped
NextDB ==
  \/ \E c \in Writers, kv \in DBSets : DBStart(c, "Set", kv[1], kv[2])
  \/ \E c \in Writers, k \in DBKeys \ {PathStore(RoutePayment)} :
        DBStart(c, "Value", k, 0)
  \/ \E c \in Clients \ Writers :
        DBStart(c, "Value", PathStore(RoutePayment), 0)
  \/ \E c \in Clients, convOk \in BOOLEAN, prepOk \in BOOLEAN :
        DBStmt(c, convOk, prepOk)
  \/ \E c \in Clients, execOk \in BOOLEAN : DBExec(c, execOk)
  \/ \E c \in Clients : DBReturn(c)
  \/ DBStorageStart
  \/ \E i \in 1..3, closeOk \in BOOLEAN : StopIdleChecker(i, closeOk)
  \/ \E s \in Stmts : Sweep(s)
  \/ RowNull(PathDefault(RouteSystem))

SpecDB == Init /\ [][NextDB]_vars

\* the SQL storage and its statements: every kind of call, on one key and
\* on a key that is not valid, by two clients, with the idle checkers
NextStmt ==
  \/ \E c \in Writers : DBStart(c, "Set", PathStore(RoutePayment), 8085)
  \/ \E c \in Clients : DBStart(c, "Value", PathStore(RoutePayment), 0)
  \/ \E c \in Clients \ Writers : DBStart(c, "Value", DBBadKey, 0)
  \/ \E c \in Clients \ Writers : DBStart(c, "AllKeys", NoPath, 0)
  \/ \E c \in Clients, convOk \in BOOLEAN, prepOk \in BOOLEAN :
        DBStmt(c, convOk, prepOk)
  \/ \E c \in Clients, execOk \in BOOLEAN : DBExec(c, execOk)
  \/ \E c \in Clients : DBReturn(c)
  \/ DBStorageStart
  \/ \E i \in 1..3, closeOk \in BOOLEAN : StopIdleChecker(i, closeOk)
  \/ \E s \in Stmts : Sweep(s)

SpecStmt == Init /\ [][NextStmt]_vars

\* the path functions
NextPath ==
  \/ \E route \in PathRoutes,
        s \in {TypeDefault, TypeWebsite, TypeGroup, TypeStore},
        id \in PathIDs : CallFQ(route, s, id)
  \/ \E fqPath \in BadFQ \cup SignedFQ : CallSplitFQ(fqPath)

SpecPath == Init /\ [][NextPath]_vars

\* the methods of scope.Perm
NextPerm ==
  \/ \E bits \in Perms : CallTop(bits)
  \/ \E bits \in Perms, scopes \in SUBSET {TypeDefault, TypeWebsite, TypeStore} :
        CallSet(bits, scopes)
  \/ \E bits \in Perms : CallMarshalJSON(bits)
  \/ \E bits \in Perms : CallString(bits)

SpecPerm == Init /\ [][NextPerm]_vars

\* the observer registry
NextObs ==
  \/ \E key \in ObsKeys, o \in Observers : RegisterObserver(key, o)
  \/ \E key \in ObsKeys : DeregisterObserver(key)
  \/ \E key \in ObsKeys, data \in ObsData : Evaluate(key, data)

SpecObs == Init /\ [][NextObs]_vars

\* the loader of observer configurations
NextLoad == \E d \in Docs : RegisterObservers(d)

SpecLoad == Init /\ [][NextLoad]_vars

\* paths passed to Subscribe in the subscription life cycle: a topic and the
\* empty path
SubTopics == { PathDefault(<<"payment">>), PathDefault(EmptyRoute) }
SubPaths == { PathStore(RoutePayment) }

\* the life cycle of subscriptions: Subscribe, Unsubscribe, and the eviction
\* of receivers that return an error
NextSub ==
  \/ \E p \in SubTopics : Subscribe(p)
  \/ \E id \in 1..MaxSubs : Unsubscribe(id)
  \/ \E c \in Writers, p \in SubPaths : SendMsg(c, p)
  \/ \E c \in Writers : PubRecvPath(c)
  \/ PubLen
  \/ PubReadMap
  \/ \E id \in 1..MaxSubs : PubCallStart(id)
  \/ \E x \in active, out \in {"nil", "err"} : PubCallReturn(x, out)
  \/ PubNextLookup
  \/ PubEvict

SpecSub == Init /\ [][NextSub]_vars

\* topics given without a scope and with a scope, and changes of one route
\* at two scopes
ScopeTopics ==
  { PathDefault(<<"payment">>), PathWebsite(<<"payment">>),
    PathStore(<<"payment", "pp">>) }
ScopePaths == { PathStore(RoutePayment), PathWebsite(RoutePayment) }

\* delivery to topics with and without scope; every receiver returns nil
NextScope ==
  \/ \E p \in ScopeTopics : Subscribe(p)
  \/ \E c \in Writers, p \in ScopePaths : SendMsg(c, p)
  \/ \E c \in Writers : PubRecvPath(c)
  \/ PubLen
  \/ PubReadMap
  \/ \E id \in 1..MaxSubs : PubCallStart(id)
  \/ \E x \in active : PubCallReturn(x, "nil")
  \/ PubNextLookup

SpecScope == Init /\ [][NextScope]_vars

\* shutdown while changes are being delivered: one topic, one published
\* path, and Close called from either client
NextClose ==
  \/ Subscribe(PathDefault(<<"system">>))
  \/ \E c \in Writers : SendMsg(c, PathDefault(RouteSystem))
  \/ \E c \in Writers : SendPanic(c)
  \/ \E c \in Writers : PubRecvPath(c)
  \/ PubLen
  \/ PubReadMap
  \/ \E id \in 1..MaxSubs : PubCallStart(id)
  \/ \E x \in active, out \in {"nil", "err"} : PubCallReturn(x, out)
  \/ PubNextLookup
  \/ PubEvict
  \/ \E c \in Clients : PubRecvStop(c)
  \/ \E c \in Clients : PubAck(c)
  \/ \E c \in Clients : CloseBegin(c)
  \/ \E c \in Clients : CloseSetFlag(c)
  \/ \E c \in Clients : CloseStopPanic(c)
  \/ \E c \in Clients : ClosePubPath(c)
  \/ \E c \in Clients : CloseStopCh(c)
  \/ \E c \in Clients : CloseDefer(c)

SpecClose == Init /\ [][NextClose]_vars

\* the locks of pubSub: subscriptions, a publisher and Close, statement by
\* statement
NextGuard ==
  \/ SubscribeLock(PathDefault(<<"system">>))
  \/ \E id \in 1..MaxSubs : UnsubscribeLock(id)
  \/ WriterDone
  \/ \E c \in Writers : SendMsgCall(c, PathDefault(RouteSystem))
  \/ \E c \in Writers : SendMsgCheck(c)
  \/ \E c \in Writers : SendPanic(c)
  \/ \E c \in Writers : PubRecvPath(c)
  \/ PubLen
  \/ PubReadMapLocked
  \/ \E id \in 1..MaxSubs : PubCallStart(id)
  \/ \E x \in active, out \in {"nil", "err"} : PubCallReturn(x, out)
  \/ PubNextLookup
  \/ PubEvictLocked
  \/ \E c \in Clients : PubRecvStop(c)
  \/ \E c \in Clients : PubAck(c)
  \/ \E c \in Clients : CloseBegin(c)
  \/ \E c \in Clients : CloseSetFlag(c)
  \/ \E c \in Clients : CloseStopPanic(c)
  \/ \E c \in Clients : ClosePubPath(c)
  \/ \E c \in Clients : CloseStopCh(c)
  \/ \E c \in Clients : CloseDefer(c)

SpecGuard == Init /\ [][NextGuard]_vars

\* number of events published while the map is written
MapEvents == 1

\* topics of two levels, both met by the path system/smtp/host
MapTopics == { PathDefault(<<"system">>), PathDefault(RouteSystem) }

\* the subscription map under Subscribe, Unsubscribe of any id, publication
\* to receivers that fail, and their eviction
NextMap ==
  \/ \E p \in MapTopics : SubscribeLock(p)
  \/ \E id \in 1..(MaxSubs + 1) : UnsubscribeLock(id)
  \/ WriterDone
  \/ \E c \in Writers :
       nCalls.send < MapEvents /\ SendMsg(c, PathDefault(RouteSystem))
  \/ \E c \in Writers : ~WriterActive /\ PubRecvPath(c)
  \/ PubLen
  \/ PubReadMapLocked
  \/ \E id \in 1..MaxSubs : PubCallStart(id)
  \/ \E x \in active : PubCallReturn(x, "err")
  \/ PubNextLookup
  \/ PubEvictLocked

SpecMap == Init /\ [][NextMap]_vars

\* the client that calls Close
Closers == Clients \ Writers

\* receivers that call back into the pubSub, with a publisher, subscribers
\* and a Close
NextReent ==
  \/ SubscribeLock(PathDefault(<<"system">>))
  \/ WriterDone
  \/ \E c \in Writers : SendMsgCall(c, PathDefault(RouteSystem))
  \/ \E c \in Writers : SendMsgCheck(c)
  \/ \E c \in Writers : SendPanic(c)
  \/ \E c \in Writers : PubRecvPath(c)
  \/ PubLen
  \/ PubReadMapLocked
  \/ \E id \in 1..MaxSubs : PubCallStart(id)
  \/ \E x \in active : PubCallReturn(x, "nil")
  \/ \E x \in active, op \in Reentries : CallbackEnter(x, op)
  \/ CallbackStep
  \/ PubNextLookup
  \/ \E c \in Closers : PubRecvStop(c)
  \/ \E c \in Closers : PubAck(c)
  \/ \E c \in Closers : CloseBegin(c)
  \/ \E c \in Closers : CloseSetFlag(c)
  \/ \E c \in Closers : ClosePubPath(c)
  \/ \E c \in Closers : CloseStopCh(c)
  \/ \E c \in Closers : CloseDefer(c)

SpecReent == Init /\ [][NextReent]_vars
\* ================================================================ claims
\* r is a segment prefix of route
IsPrefix(r, route) ==
  Len(r) <= Len(route) /\ SubSeq(route, 1, Len(r)) = r

\* number of MessageConfig invocations of subscriber i for the last event
Count(i) == Cardinality({ k \in DOMAIN calls : calls[k].id = i })

\* C1: a receiver subscribed before a publication is invoked exactly once for
\* it when its route is a segment prefix of the published route, and never
\* when it is not a prefix.
C1_ExactlyOneDelivery ==
  Len(enq) > 0 =>
    \A i \in 1..subAutoInc :
      /\ ~IsPrefix(topicOf[i].route, cur.route) => Count(i) = 0
      /\ Count(i) <= 1
      /\ (IsPrefix(topicOf[i].route, cur.route) /\ i \in subsAtRecv
            /\ ppc = "select") => Count(i) = 1

\* C2: a subscriber whose MessageConfig returned an error or
\* panicked on an event is out of the subscription map when the fan-out of
\* that event is over, is not invoked for a later event, and an eviction
\* removes nobody but subscribers that failed.
C2_Evicted ==
  /\ [](/\ ppc = "select" => \A f \in failed : f.id \notin Subscribed
        /\ \A f \in failed : f.ev < Len(enq) => f.id \notin Subscribed
        /\ \A k \in DOMAIN calls : \A f \in failed :
             f.id = calls[k].id => f.ev = calls[k].ev)
  /\ [][Subscribed \ Subscribed' \subseteq { f.id : f \in failed }]_vars

\* the part of C2 that holds: a subscriber whose MessageConfig returned an
\* error, or
\* panicked with a value that recover() returns as not nil, is out of the
\* subscription map when the fan-out of that event is over and is not
\* invoked for a later event; an eviction removes nobody but such
\* subscribers, so one whose panic(nil) was recovered as nil stays.
C2_EvictedConverted ==
  /\ [](/\ ppc = "select" => \A f \in Converted : f.id \notin Subscribed
        /\ \A f \in Converted : f.ev < Len(enq) => f.id \notin Subscribed
        /\ \A k \in DOMAIN calls : \A f \in Converted :
             f.id = calls[k].id => f.ev = calls[k].ev)
  /\ [][Subscribed \ Subscribed' \subseteq { f.id : f \in Converted }]_vars

C2_Witness ==
  /\ Len(enq) = 2
  /\ \E f \in Converted : f.ev = 1 /\ f.id \notin Subscribed
  /\ \E k \in DOMAIN calls :
       /\ calls[k].ev = 2
       /\ calls[k].id \in Subscribed
       /\ \A f \in Converted : f.id # calls[k].id
       /\ \E f \in failed : ~f.conv /\ f.ev = 1 /\ f.id = calls[k].id

\* the part of C3 that holds: a panic in MessageConfig never terminates the
\* program: the
\* publish goroutine goes on with the rest of the bucket and no client sees
\* anything of it; the panicking subscriber is marked for eviction like one
\* that returned an error, unless its panic(nil) was recovered as nil.
C3_PanicRecovered ==
  /\ [](~crashed /\ ppc # "panic")
  /\ [][(active' # active /\ active' \subseteq active) =>
          /\ ppc' = "sendMsgs"
          /\ todo' = todo
          /\ pc' = pc /\ ret' = ret /\ enq' = enq
          /\ panicAt' # panicAt =>
               \E x \in active \ active' :
                 \/ /\ Len(evict') = Len(evict) + 1
                    /\ evict'[Len(evict')] = x.id
                    /\ [ev |-> x.ev, id |-> x.id, conv |-> TRUE] \in failed'
                 \/ /\ evict' = evict
                    /\ [ev |-> x.ev, id |-> x.id, conv |-> FALSE] \in failed']_vars

\* C3: a panic in MessageConfig never terminates the program: the
\* publish goroutine goes on with the rest of the bucket, the panicking
\* subscriber is marked for eviction like one that returned an error, and
\* no client sees anything of it.
C3_PanicIsolated ==
  /\ [](~crashed /\ ppc # "panic")
  /\ [][(active' # active /\ active' \subseteq active) =>
          /\ ppc' = "sendMsgs"
          /\ todo' = todo
          /\ pc' = pc /\ ret' = ret /\ enq' = enq
          /\ panicAt' # panicAt =>
               /\ Len(evict') = Len(evict) + 1
               /\ \E x \in active \ active' : evict'[Len(evict')] = x.id]_vars

C3_Witness ==
  /\ panicAt = 1
  /\ Len(enq) = 2
  /\ \E k \in DOMAIN calls : calls[k].ev = 2

\* C7: callbacks never overlap and follow the order of the input channel:
\* a path is taken from the channel only when no callback is running, and
\* every callback that starts afterwards is for the path taken last.
C7_SerialFifo ==
  /\ [](/\ Cardinality(active) <= 1
        /\ \A x \in active : x.ev = Len(enq)
        /\ \A k \in DOMAIN calls :
             calls[k].ev = Len(enq) /\ calls[k].path = enq[Len(enq)])
  /\ [][enq' # enq => active = {} /\ enq' = Append(enq, cur')]_vars

C7_Witness ==
  /\ Len(enq) = 2
  /\ \E x \in active :
       /\ \A f \in failed : f.id # x.id
       /\ IsPrefix(topicOf[x.id].route, enq[1].route)
       /\ IsPrefix(topicOf[x.id].route, enq[2].route)
       /\ x.id \in subsAtRecv

Handed(c) == Len(enq) - mark[c]

\* C4 as stated: every Service.Set that returns nil has handed exactly one
\* ChangeEvent to the input channel.
C4_ExactlyOneEvent ==
  \A c \in Writers : pc[c] = "set_return" => Handed(c) = 1

\* C4 amended: a Service.Set that returns nil has handed at most one
\* ChangeEvent, the written path, to the input channel: exactly one while the
\* pubSub is not closed, and none only when sendMsg found it closed.
C4_AtMostOneEvent ==
  \A c \in Writers :
    pc[c] = "set_return" =>
      /\ Handed(c) \in {0, 1}
      /\ ~closed => Handed(c) = 1
      /\ Handed(c) = 1 => enq[Len(enq)] = arg[c]
      /\ Handed(c) = 0 => closed

C4_Witness ==
  \E c \in Writers :
    /\ pc[c] = "set_return"
    /\ nOk = 1
    /\ Handed(c) = 1
    /\ Len(enq) = 2

\* C5: a Service.Set that fails returns the error, stores nothing and
\* publishes nothing; a value the BeforeSet observer rejects is never stored.
C5_FailedSetChangesNothing ==
  /\ [](\A k \in DOMAIN storage :
          k.route = RoutePayment => storage[k] >= 8080 /\ storage[k] <= 8090)
  /\ [][\A c \in Writers :
          (nCalls'.send # nCalls.send /\ pc'[c] # "set_publish") =>
             /\ ret'[c] \in {"NotValid", "StorageErr"}
             /\ pc'[c] = "idle"
             /\ storage' = storage
             /\ enq' = enq /\ nOk' = nOk]_vars

C5_Witness ==
  \E c \in Writers :
    /\ ret[c] = "NotValid"
    /\ pc[c] = "idle"
    /\ nCalls.send = 2
    /\ nOk = 1
    /\ Len(enq) = 1
    /\ DOMAIN storage = {PathDefault(RoutePayment)}

\* C6: a read through the Scoped view returns the value of the narrowest
\* scope of its chain that has one: store, else website, else default, and
\* NotFound only when all of them miss.
C6_NarrowestScopeWins ==
  [][readRes' # readRes =>
       LET r == readRes'
           s == MakePath("stores", r.current, RoutePayment)
           w == MakePath("websites", r.parent, RoutePayment)
           d == PathDefault(RoutePayment)
       IN  IF r.current # 0 /\ s \in DOMAIN storage
           THEN r.err = "nil" /\ r.from = "stores" /\ r.val = storage[s]
           ELSE IF r.parent # 0 /\ w \in DOMAIN storage
           THEN r.err = "nil" /\ r.from = "websites" /\ r.val = storage[w]
           ELSE IF d \in DOMAIN storage
           THEN r.err = "nil" /\ r.from = "default" /\ r.val = storage[d]
           ELSE r.err = "NotFound"]_vars

C6_Witness ==
  /\ readRes.current = StoreID
  /\ readRes.from = "stores"
  /\ PathStore(RoutePayment) \in DOMAIN storage
  /\ PathDefault(RoutePayment) \in DOMAIN storage
  /\ storage[PathDefault(RoutePayment)] # readRes.val
  /\ storage[PathStore(RoutePayment)] = readRes.val

\* C9: no call of Close panics, the first one returns nil and every later
\* one returns AlreadyClosed.
C9_CloseNeverPanics ==
  /\ \A c \in Clients : pc[c] # "panic_close"
  /\ \A c \in Clients : ret[c] = "AlreadyClosed" => closed

\* C10: a sendMsg that overlaps Close does not panic with a send on a
\* closed channel.
C10_SendNeverPanics ==
  \A c \in Clients : pc[c] # "panic_send"

\* C11 as stated: whenever a call of Close has returned, the publish
\* goroutine has acknowledged and exited and no receiver is running.
C11_CloseReturnsAfterExit ==
  \A c \in Clients :
    ret[c] \in {"nil", "AlreadyClosed"} => ppc = "done" /\ active = {}

\* C11 amended: the publish goroutine leaves only from its select, so every
\* path it has taken is fanned out to the end before it acknowledges; the
\* call of Close that returns nil returns after the acknowledgement, when
\* the goroutine is gone, and no receiver is invoked afterwards.
C11_NilCloseDrains ==
  /\ [](/\ \A c \in Clients :
             ret[c] = "nil" => ppc = "done" /\ active = {} /\ ~rlocked
        /\ ppc \in {"ack", "done"} =>
             /\ active = {} /\ todo = {} /\ evict = << >> /\ lk = 0
             /\ Len(enq) > 0 =>
                  \A i \in subsAtRecv :
                    IsPrefix(topicOf[i].route, cur.route) => Count(i) >= 1)
  /\ [][(\E c \in Clients : ret[c] = "nil") =>
          calls' = calls /\ active' = active /\ enq' = enq]_vars

C11_Witness ==
  /\ \E c \in Clients : ret[c] = "nil" /\ pc[c] = "idle"
  /\ ~crashed
  /\ Len(enq) = 2
  /\ subsAtRecv # {}
  /\ \A i \in subsAtRecv : Count(i) >= 1

\* C12: the ids returned by successful Subscribe calls are 1, 2, 3, ... in
\* the order of the calls: each one is larger than every id returned before
\* it, whether or not that id is still subscribed.
C12_FreshIds ==
  /\ [](/\ \A k \in DOMAIN issued : issued[k] = k
        /\ subRet.err = "nil" => subRet.id = issued[Len(issued)]
        /\ Subscribed \subseteq { issued[k] : k \in DOMAIN issued })
  /\ [][issued' # issued =>
          /\ issued' = Append(issued, subRet'.id)
          /\ \A k \in DOMAIN issued : issued[k] < subRet'.id
          /\ subRet'.id \notin Subscribed
          /\ subRet'.id \in Subscribed']_vars

C12_Witness ==
  /\ Len(issued) = 2
  /\ subRet.err = "nil" /\ subRet.id = 2
  /\ issued[1] \notin Subscribed
  /\ issued[2] \in Subscribed
  /\ ppc = "select"

\* C13: a receiver whose topic carries a scope is invoked only for changes
\* at that scope and id, and of the two lookups that the fan-out makes for
\* a level the first uses the scope-qualified hash of the changed path and
\* the second its route-only hash.
C13_ScopedAndRouteTopics ==
  /\ \A k \in DOMAIN calls :
       LET t == topicOf[calls[k].id] IN
       t.scope # "default" =>
         t.scope = calls[k].path.scope /\ t.id = calls[k].path.id
  /\ ppc \in {"sendMsgs", "call"} =>
       LookupHash(cur, lk) = IF lk % 2 = 1 THEN H2(cur, LevelOf(lk))
                             ELSE H1(cur, LevelOf(lk))

\* C14: Subscribe with an empty path returns id 0 and the Empty error and
\* changes neither the map nor the counter, so the successful Subscribe
\* that follows it returns the counter of before plus one.
C14_EmptyPathRefused ==
  /\ [](subRet.err = "Empty" => subRet.id = 0)
  /\ [][subRet' # subRet =>
          /\ subRet'.err = "Empty" =>
               /\ subMap' = subMap /\ subAutoInc' = subAutoInc
               /\ issued' = issued /\ topicOf' = topicOf
          /\ subRet'.err = "nil" =>
               subRet'.id = Len(issued) + 1 /\ subRet'.id = subAutoInc + 1]_vars

C14_Witness ==
  /\ subRet.err = "Empty"
  /\ subRet.id = 0
  /\ subAutoInc = 1
  /\ Subscribed = {1}
  /\ DOMAIN subMap = {Hash32(PathDefault(<<"payment">>))}

\* what a read of an adapter with a field descriptor must have queried and
\* returned when the store level is permitted iff sP and the website level
\* iff wP: the permitted levels from store to default up to the first one
\* that has a value
ChainOutcome(g, st, sP, wP) ==
  LET sp == MakePath("stores", g.current, RoutePayment)
      wp == MakePath("websites", g.parent, RoutePayment)
      dp == PathDefault(RoutePayment)
      sq == IF sP THEN <<sp>> ELSE << >>
      wq == IF wP THEN <<wp>> ELSE << >>
  IN  IF sP /\ sp \in DOMAIN st
      THEN g.invokes = sq /\ g.val = st[sp]
      ELSE IF wP /\ wp \in DOMAIN st
      THEN g.invokes = sq \o wq /\ g.val = st[wp]
      ELSE /\ g.invokes = sq \o wq \o <<dp>>
           /\ dp \in DOMAIN st => g.val = st[dp]

\* the reads that reach the storage: the adapter has a field descriptor
\* whose Default converts, and the Service answers
PlainRead(g) == g.field /\ g.def # "bad" /\ ~g.fail

\* C15 as stated: the view queries store, website, default in this order,
\* leaves out the store or website level when its id is 0 or when the
\* field's scopes do not have it, stops on the first value, and records
\* exactly what it queried.
C15_MaskedChain ==
  [][(getRes' # getRes /\ PlainRead(getRes')) =>
       ChainOutcome(getRes', storage,
                    getRes'.current # 0 /\ Has(getRes'.scopes, TypeStore),
                    getRes'.parent # 0 /\ Has(getRes'.scopes, TypeWebsite))]_vars

\* C15 amended: the view is given only the highest scope of the field's
\* scopes, so it leaves out the store level when the store id is 0 or the
\* scopes have no store bit, and the website level when the website id is 0
\* or the scopes have neither the store nor the website bit; the default
\* level is always the last one.
C15_TopScopeChain ==
  [][(getRes' # getRes /\ PlainRead(getRes')) =>
       ChainOutcome(getRes', storage,
                    getRes'.current # 0 /\ Has(getRes'.scopes, TypeStore),
                    getRes'.parent # 0 /\
                      (Has(getRes'.scopes, TypeStore)
                         \/ Has(getRes'.scopes, TypeWebsite)))]_vars

C15_Witness ==
  /\ PlainRead(getRes)
  /\ getRes.scopes = PermStore
  /\ getRes.parent = WebsiteID /\ getRes.current = StoreID
  /\ getRes.invokes = <<PathStore(RoutePayment), PathWebsite(RoutePayment)>>
  /\ PathDefault(RoutePayment) \in DOMAIN storage
  /\ getRes.val = storage[PathWebsite(RoutePayment)]
  /\ getRes.val # storage[PathDefault(RoutePayment)]

\* C16: Value returns the value the view found; on NotFound the converted
\* Default of the field, or the zero value, with a nil error; any other
\* error of the view with its kind; and NotValid, without a query, when the
\* Default cannot be converted.
C16_ValueOrDefault ==
  [][getRes' # getRes =>
       LET g == getRes'
           n == Len(g.invokes)
           hit == n > 0 /\ g.invokes[n] \in DOMAIN storage
       IN  IF g.field /\ g.def = "bad"
           THEN g.err = "NotValid" /\ g.invokes = << >> /\ g.val = 0
           ELSE IF g.fail
           THEN g.err = "Fatal" /\ n = 1
           ELSE /\ g.err = "nil"
                /\ hit => g.val = storage[g.invokes[n]]
                /\ ~hit => g.val = IF g.field /\ g.def = "ok"
                                   THEN DefaultTime ELSE 0]_vars

C16_Witness ==
  /\ getRes.err = "Fatal" /\ getRes.wrapped
  /\ getRes.field /\ getRes.def = "ok"
  /\ PathDefault(RoutePayment) \in DOMAIN storage

\* C17: an adapter without field descriptor queries default/0 and nothing
\* else, whatever the view's website and store ids are, and returns the
\* value of the default scope or the zero value.
C17_NoFieldDefaultOnly ==
  [][(getRes' # getRes /\ ~getRes'.field) =>
       LET g == getRes'
           dp == PathDefault(RoutePayment)
       IN  /\ g.invokes = <<dp>>
           /\ ~g.fail => /\ g.err = "nil"
                         /\ g.val = IF dp \in DOMAIN storage
                                     THEN storage[dp] ELSE 0]_vars

C17_Witness ==
  /\ ~getRes.field /\ ~getRes.fail
  /\ getRes.parent = WebsiteID /\ getRes.current = StoreID
  /\ PathStore(RoutePayment) \in DOMAIN storage
  /\ PathDefault(RoutePayment) \in DOMAIN storage
  /\ getRes.val = storage[PathDefault(RoutePayment)]
  /\ getRes.val # storage[PathStore(RoutePayment)]

\* C18: a Value call of the SQL storage for a key that was never set, with
\* no row or with a row whose value is NULL, and with no failure of the
\* database, returns an error of the kind NotFound.
C18_AbsentIsNotFound ==
  (/\ dbRet.op = "Value"
   /\ dbRet.row \in {"none", "null"}
   /\ dbRet.err \notin {"ExecErr", "StmtErr", "StmtClosed", "LevelErr"})
    => Kind(dbRet.err) = "NotFound"

\* the clients that are between StartStmtUse and the return of a call that
\* uses statement s
UsersOf(s) ==
  { c \in Clients :
      dbpc[c] \in {"started", "exec", "reply"} /\ StmtOf(dbop[c].op) = s }

\* the clients whose Set of key k the server has executed and whose call
\* has not returned yet
Applied(k) ==
  { c \in Clients : /\ dbpc[c] = "reply" /\ dbop[c].op = "Set"
                    /\ dbop[c].key = k /\ dbop[c].res.err = "nil" }

\* the keys that have been set, and the value of the most recent Set of a
\* key that has succeeded: the one the server has just executed, or else
\* the one of the last Set that returned nil
Written == { k \in DBKeys : k \in DOMAIN lastSet \/ Applied(k) # {} }
LastWrite(k) ==
  IF Applied(k) # {} THEN dbop[CHOOSE c \in Applied(k) : TRUE].val
  ELSE lastSet[k]

\* C19: the row of every key holds the value of the most recent Set of that
\* key that has succeeded, in its string form; a Value that finds the row
\* reads that value and returns what it has read; a row changes only by a
\* Set of its own key, and no row disappears.
C19_LastWriteWins ==
  /\ [](\A k \in Written :
          /\ RowKey(k) \in DOMAIN table
          /\ table[RowKey(k)] = [valid |-> TRUE, str |-> ToStringE(LastWrite(k))])
  /\ [][\A c \in Clients :
          /\ (/\ dbpc[c] = "exec" /\ dbpc'[c] = "reply"
              /\ dbop[c].op = "Value" /\ dbop'[c].res.err = "nil")
               => /\ dbop[c].key \in Written
                  /\ dbop'[c].res.val = ToStringE(LastWrite(dbop[c].key))
          /\ (/\ dbpc[c] = "reply" /\ dbpc'[c] = "idle"
              /\ dbop[c].op = "Value")
               => dbRet' = dbop[c].res]_vars
  /\ [][table' # table =>
          /\ DOMAIN table \subseteq DOMAIN table'
          /\ \A x \in DOMAIN table' :
               (/\ table'[x].valid
                /\ x \in DOMAIN table => table'[x] # table[x])
                 => \E c \in Clients :
                      /\ dbpc[c] = "exec" /\ dbpc'[c] = "reply"
                      /\ dbop[c].op = "Set" /\ RowKey(dbop[c].key) = x
                      /\ table'[x].str = ToStringE(dbop[c].val)]_vars

C19_Witness ==
  /\ DOMAIN lastSet = {PathDefault(RoutePayment), PathStore(RoutePayment)}
  /\ table[RowKey(PathDefault(RoutePayment))].str = <<"8", "0", "8", "5">>
  /\ dbRet.op = "Value" /\ dbRet.err = "nil"
  /\ dbRet.key = PathStore(RoutePayment)
  /\ dbRet.val = <<"8", "0", "9", "0">>
  /\ Applied(PathStore(RoutePayment)) # {}
  /\ lastSet[PathStore(RoutePayment)] = 8085

\* C20: the statement of a call that executes is open, unless Stop has
\* closed it; the use counter of a statement is the number of calls between
\* StartStmtUse and their return, whatever way they return; the idle
\* checker closes a statement only when that number is zero, and a closed
\* statement is opened again by the next call that needs it.
C20_NoCloseInFlight ==
  /\ [](/\ \A c \in Clients :
             (/\ dbpc[c] \in {"exec", "reply"}
              /\ stmt[StmtOf(dbop[c].op)].checker \in {"off", "on"})
               => stmt[StmtOf(dbop[c].op)].open = "open"
        /\ \A s \in Stmts : stmt[s].inUse = Cardinality(UsersOf(s))
        /\ dbRet.err = "StmtClosed" =>
             stmt["Read"].checker \in {"stopped", "failed"})
  /\ [][\A s \in Stmts :
          /\ (/\ stmt[s].open = "open" /\ stmt'[s].open = "closed"
              /\ stmt'[s].checker = "on") =>
               stmt[s].inUse = 0 /\ UsersOf(s) = {}
          /\ (stmt[s].open = "closed" /\ stmt'[s].open = "open") =>
               \E c \in UsersOf(s) :
                 /\ dbpc[c] = "started"
                 /\ dbpc'[c] = "exec" \/ dbop[c].key = DBBadKey]_vars

C20_Witness ==
  /\ stmt["Read"].open = "closed"
  /\ stmt["Read"].checker = "on"
  /\ stmt["Read"].inUse = 2
  /\ \A c \in Clients : dbpc[c] = "started" /\ dbop[c].op = "Value"
  /\ stmt["Write"].open = "closed"

\* the path a binding stands for: the default scope has the id 0, and the
\* group scope falls back to the default scope
Canon(p) ==
  IF p.Scope \in {TypeDefault, TypeGroup}
  THEN [p EXCEPT !.Scope = TypeDefault, !.ID = 0]
  ELSE p

\* C21: for a valid route bound to any scope with any id, SplitFQ of the
\* fully qualified path returns, without error, the path that was bound
\* after Default-canonicalisation (the default and the group scope count
\* as the default scope with id 0); the fully qualified path has four
\* separators and starts with one of the scope names default, websites,
\* stores, and ends with the route.
C21_SplitInvertsFQ ==
  (pathRes.op = "FQ" /\ pathRes.err = "nil")
  => /\ pathRes.splitErr = "nil"
     /\ pathRes.split = Canon(pathRes.p)
     /\ CountSep(pathRes.fq) = Levels + 1
     /\ ValidBytes(SubSeq(pathRes.fq, 1, IndexSep(pathRes.fq) - 1))
     /\ SubSeq(pathRes.fq, Len(pathRes.fq) - Len(pathRes.p.Route) + 1,
               Len(pathRes.fq)) = pathRes.p.Route

\* the part of C21 that holds: the round trip of a path bound to a website
\* or a store, or to the default scope with an id that is not negative
C21_RoundTripOutsideGroup ==
  (/\ pathRes.op = "FQ" /\ pathRes.err = "nil"
   /\ pathRes.p.Scope \in {TypeDefault, TypeWebsite, TypeStore}
   /\ pathRes.p.ID >= 0)
  => /\ pathRes.splitErr = "nil"
     /\ pathRes.split = Canon(pathRes.p)

C21_Witness ==
  /\ pathRes.op = "FQ" /\ pathRes.err = "nil"
  /\ pathRes.p = Bind(RouteSystem, TypeDefault, StoreID)
  /\ pathRes.split = Bind(RouteSystem, TypeDefault, 0)
  /\ pathRes.fq = JoinChars(<<"default", "0">> \o RouteSystem)

\* the fully qualified path "<scope name>/<id>/<route>" the spec gives to a
\* route bound to scope s with id
ExpectedFQ(route, s, id) ==
  IF s = TypeWebsite
  THEN SegChars["websites"] \o <<"/">> \o AppendInt(id) \o <<"/">> \o route
  ELSE IF s = TypeStore
  THEN SegChars["stores"] \o <<"/">> \o AppendInt(id) \o <<"/">> \o route
  ELSE SegChars["default"] \o <<"/", "0", "/">> \o route

\* C22: a valid route bound to the default or to the group scope, with any
\* id, has the fully qualified path default/0/<route>; bound to website w
\* it has websites/w/<route>, bound to store k it has stores/k/<route>.
C22_ScopeCanonical ==
  (pathRes.op = "FQ" /\ pathRes.err = "nil")
  => pathRes.fq = ExpectedFQ(pathRes.p.Route, pathRes.p.Scope, pathRes.p.ID)

\* a JSON array of strings: every name in quotes, a comma between two names
RECURSIVE QuoteJoin(_)
QuoteJoin(names) ==
  IF names = << >> THEN << >>
  ELSE <<"\"">> \o Head(names) \o <<"\"">>
         \o (IF Len(names) > 1 THEN <<",">> ELSE << >>)
         \o QuoteJoin(Tail(names))

\* C23: MarshalJSON returns no error; for the zero Perm it returns null,
\* for every other Perm the JSON array of the names of its set scope bits,
\* lowest scope first, and for Perm.All() ["Default","Website","Store"].
C23_MarshalJSON ==
  permRes.op = "MarshalJSON"
  => /\ permRes.err = "nil"
     /\ permRes.bits = 0 => permRes.json = nullByte
     /\ permRes.bits # 0 =>
          permRes.json = <<"[">> \o QuoteJoin(Human(permRes.bits)) \o <<"]">>
     /\ permRes.bits = All(0) =>
          permRes.json = <<"[">> \o QuoteJoin(<<TypeName(TypeDefault),
                             TypeName(TypeWebsite), TypeName(TypeStore)>>)
                           \o <<"]">>

\* the number the enumeration of the spec gives to a scope kind:
\* Default=0, Website=1, Group=2, Store=3
SpecNumber(t) ==
  CASE t = TypeDefault -> 0 [] t = TypeWebsite -> 1
    [] t = TypeGroup -> 2 [] t = TypeStore -> 3

ScopeKinds == {TypeDefault, TypeWebsite, TypeGroup, TypeStore}

\* C24 as stated: with the kinds numbered Default=0, Website=1, Group=2,
\* Store=3, Top is Store when the store bit is set, else Website when the
\* website bit is set, else Default; Has(k) is the bit 1<<k; and
\* Perm(44).Top() is Website.
C24_SpecEnumeration ==
  permRes.op = "Top"
  => /\ permRes.top =
          IF BitSet(permRes.bits, SpecNumber(TypeStore)) THEN TypeStore
          ELSE IF BitSet(permRes.bits, SpecNumber(TypeWebsite))
          THEN TypeWebsite ELSE TypeDefault
     /\ \A k \in ScopeKinds :
          permRes.has[k] <=> BitSet(permRes.bits, SpecNumber(k))
     /\ permRes.bits = 44 => permRes.top = TypeWebsite

\* C24 amended: with the kinds numbered Absent=0, Default=1, Website=2,
\* Group=3, Store=4, Has(k) is the bit 1<<k, Top is the higher one of
\* Website and Store that is present and Default when neither is, Set
\* adds the bits of its scopes and changes no other bit, and the values of
\* TestPermTop and TestPermAll come out.
C24_TopHasSet ==
  /\ permRes.op = "Top"
     => /\ \A k \in 0..(maxType - 1) :
             permRes.has[k] <=> (permRes.bits \div 2 ^ k) % 2 = 1
        /\ permRes.top \in {TypeDefault, TypeWebsite, TypeStore}
        /\ permRes.top # TypeDefault => permRes.has[permRes.top]
        /\ \A k \in {TypeWebsite, TypeStore} :
             permRes.has[k] => k <= permRes.top
        /\ permRes.bits = PermWebsite => permRes.top = TypeWebsite
        /\ permRes.bits = PermStore => permRes.top = TypeStore
        /\ permRes.bits = PermDefault => permRes.top = TypeDefault
        /\ permRes.bits = 44 => permRes.top = TypeWebsite
        /\ permRes.bits \in {PermWebsiteReverse, PermStoreReverse}
             => permRes.top = TypeStore
  /\ permRes.op = "Set"
     => /\ \A k \in 0..(PermBits - 1) :
             BitSet(permRes.out, k)
               <=> (BitSet(permRes.bits, k) \/ k \in permRes.scopes)
        /\ (permRes.bits = PermWebsite /\ permRes.scopes = {TypeStore})
             => \A k \in {TypeDefault, TypeWebsite, TypeStore} :
                  Has(permRes.out, k)

C24_Witness ==
  /\ permRes.op = "Top" /\ permRes.bits = 44
  /\ permRes.top = TypeWebsite
  /\ permRes.has[TypeGroup] /\ ~permRes.has[TypeStore]

\* C30: String returns, for every Perm, the names of its set scope bits
\* with a comma between two names and none at the end; it does not panic,
\* and the string is empty when no scope bit is set.
C30_StringNoTrailingComma ==
  permRes.op = "String"
  => /\ ~permRes.panic
     /\ permRes.str = JoinNames(Human(permRes.bits), 1, <<",">>)


NoDuplicate(list) ==
  \A i, j \in 1..Len(list) : list[i] = list[j] => i = j

\* C25: Evaluate invokes the observers of the event and route in the order
\* of their registration, each with the data the one before it returned; the
\* first error ends the evaluation and is the error of Evaluate, with no
\* later observer invoked; an observer registered twice runs once.
C25_EvaluateInOrder ==
  /\ \A key \in DOMAIN observers : NoDuplicate(observers[key])
  /\ evalRes.op = "Evaluate" =>
       LET n == Len(evalRes.invoked) IN
       /\ n <= Len(evalRes.list)
       /\ Len(evalRes.datas) = n
       /\ NoDuplicate(evalRes.invoked)
       /\ \A i \in 1..n : evalRes.invoked[i] = evalRes.list[i]
       /\ n > 0 => evalRes.datas[1] = evalRes.data
       /\ \A i \in 1..(n - 1) :
            /\ Observe(evalRes.invoked[i], evalRes.datas[i]).err = "nil"
            /\ evalRes.datas[i + 1] =
                 Observe(evalRes.invoked[i], evalRes.datas[i]).data
       /\ evalRes.err = "nil" =>
            /\ n = Len(evalRes.list)
            /\ evalRes.out = IF n = 0 THEN evalRes.data
                             ELSE Observe(evalRes.invoked[n],
                                          evalRes.datas[n]).data
       /\ evalRes.err # "nil" =>
            /\ n > 0
            /\ evalRes.err = Observe(evalRes.invoked[n], evalRes.datas[n]).err

\* an evaluation the second of three observers has ended with an error,
\* after the first one has changed the data
C25_Witness ==
  /\ evalRes.op = "Evaluate"
  /\ Len(evalRes.list) = 3
  /\ Len(evalRes.invoked) = 2
  /\ evalRes.err = "NotValid"
  /\ evalRes.datas[2] # evalRes.data

\* the defects of a document
Defects(d) ==
  (IF ~d.json \/ d.condition = "malformed" THEN {"json"} ELSE {})
  \cup (IF d.event \notin KnownEvents THEN {"event"} ELSE {})
  \cup (IF d.route # RoutePayment THEN {"route"} ELSE {})
  \cup (IF d.type \notin BuiltIn \cup CustomTypes THEN {"type"} ELSE {})
  \cup (IF d.type \in BuiltIn /\ d.condition = "absent"
        THEN {"condition"} ELSE {})
  \cup (IF d.type = "Strings" /\ d.condition = "IsPHP"
        THEN {"validator"} ELSE {})

\* the kind of error the specification gives for a defect
KindOf(defect) ==
  CASE defect = "json"      -> "BadEncoding"
    [] defect = "event"     -> "NotFound"
    [] defect = "route"     -> "NotValid"
    [] defect = "type"      -> "NotFound"
    [] defect = "condition" -> "Empty"
    [] defect = "validator" -> "NotSupported"

\* C26: loading a document fails with the kind of its defect (BadEncoding,
\* Empty, NotFound, NotValid, NotSupported), an invalid route gives NotValid
\* also when the condition is missing, a failed load registers nothing, and
\* a well-formed entry registers exactly one observer with its event and
\* route.
C26_LoaderErrors ==
  loadRes.op = "RegisterObservers" =>
    LET d == loadRes.doc
        D == Defects(d)
    IN  /\ D = {} =>
             /\ loadRes.err = "nil"
             /\ Len(loadRes.registered) = 1
             /\ loadRes.registered[1][1] = d.event
             /\ loadRes.registered[1][2] = d.route
        /\ D # {} =>
             /\ loadRes.registered = << >>
             /\ loadRes.err \in { KindOf(x) : x \in D }
        /\ \A x \in D : D = {x} => loadRes.err = KindOf(x)
        /\ D = {"route", "condition"} => loadRes.err = "NotValid"

\* the entry of the test with a route of one part and no condition
C26_Witness ==
  /\ loadRes.op = "RegisterObservers"
  /\ Defects(loadRes.doc) = {"route", "condition"}
  /\ loadRes.err = "NotValid"
  /\ loadRes.registered = << >>


\* C27: every read and write of subMap happens under s.mu in the matching
\* mode, the test of len(s.subMap) in publish included, so that no read
\* overlaps a Subscribe or Unsubscribe that is writing, and sendMsg never
\* reads s.closed while Close is writing it.
C27_MapAndFlagGuarded ==
  /\ rlocked => ~WriterActive
  /\ ppc = "len" => ~WriterActive
  /\ \A c, d \in Clients : ~(pc[c] = "send_check" /\ pc[d] = "close_set")

\* the lookups of readMapAndSend never overlap a writer
C27_LookupsGuarded == rlocked => ~WriterActive


\* the map has no empty bucket, no id in two buckets and no id outside
\* 1..subAutoInc
WellFormed(m) ==
  /\ \A h \in DOMAIN m : m[h] # {}
  /\ \A h1, h2 \in DOMAIN m : h1 # h2 => m[h1] \cap m[h2] = {}
  /\ \A h \in DOMAIN m : m[h] \subseteq 1..subAutoInc

\* an Unsubscribe of a client, or of an eviction, for an id that is in no
\* bucket leaves the map as it is, and the client gets nil
AbsentUnsubscribe ==
  /\ (writer.op = "Unsubscribe" /\ writer' = NoCall
        /\ writer.id \notin Subscribed)
       => (subMap' = subMap /\ unsubRet' = [id |-> writer.id, err |-> "nil"])
  /\ (ppc = "evict" /\ evict' # evict /\ Head(evict) \notin Subscribed)
       => subMap' = subMap

\* C28: after any sequence of Subscribe, Unsubscribe, publication and
\* eviction no bucket of the subscription map is empty, every id is in
\* exactly one bucket and lies between 1 and subAutoInc, and Unsubscribe of
\* an id that is not present returns nil and changes nothing.
C28_MapWellFormed ==
  /\ [](WellFormed(subMap) /\ unsubRet.err \in {"none", "nil"})
  /\ [][AbsentUnsubscribe]_vars

\* a bucket is left, a client has unsubscribed an id that never was
\* issued, and publish is about to evict an id a second time
C28_Witness ==
  /\ Subscribed # {}
  /\ unsubRet.err = "nil"
  /\ unsubRet.id > subAutoInc
  /\ ppc = "evict"
  /\ Head(evict) \notin Subscribed


\* while the call of a receiver is blocked nothing is received or
\* delivered, the call stays where it is and a Close stays in s.stop <-
StaysBlocked ==
  Blocked =>
    /\ ppc' = ppc
    /\ enq' = enq
    /\ calls' = calls
    /\ active' = active
    /\ \A c \in Clients :
         /\ pc[c] = "close_stop" => pc'[c] = "close_stop"
         /\ pc[c] = "send_wait" => pc'[c] \in {"send_wait", "panic_send"}

\* C29: receivers run on the goroutine of publish while it holds the read
\* lock and is the only reader of pubPath; a receiver that calls Subscribe,
\* Unsubscribe, or sendMsg on a pubSub that is not closed, never returns:
\* no later event is delivered and a later Close blocks for ever.
C29_ReentrantCallbackBlocks ==
  /\ [](ppc \in {"call", "cb_lock", "cb_check", "cb_send"} => rlocked)
  /\ [](Blocked => \A c \in Clients :
                     pc[c] \in {"idle", "send_check", "send_wait",
                                "close_set", "close_stop"})
  /\ [][StaysBlocked]_vars

\* a receiver is blocked in Lock(), the next event waits in sendMsg and a
\* Close waits in s.stop <-
C29_Witness ==
  /\ ppc = "cb_lock"
  /\ \E c \in Clients : pc[c] = "send_wait"
  /\ \E c \in Clients : pc[c] = "close_stop"

\* a receiver is blocked in s.pubPath <- p and a Close waits in s.stop <-
C29_WitnessSend ==
  /\ ppc = "cb_send"
  /\ \E c \in Clients : pc[c] = "close_stop"

====
